---- MODULE Spec2Model ----
(***************************************************************************)
(* AudioRatingWidget (src/frontend/study_coordinator.js, class             *)
(* AudioRatingWidget): the per-dimension segment lists, the pointer        *)
(* gesture handlers that edit them, the 'ready' clamp, getData/setData and *)
(* the 'change' callbacks; and StudyCoordinator's completion check.        *)
(*                                                                         *)
(* Units.  Times are integers in ticks of 0.01 s, so MIN_SEG = 0.08 s is 8 *)
(* and epsilon = 0.02 s is 2; JavaScript's floating point is read as exact *)
(* arithmetic on these ticks.  Pixels are integers.  A pixel position      *)
(* computed from a time is kept multiplied by the duration (TimeToXScaled) *)
(* so that no division is needed to compare it.  The 1e9 s sentinel is a   *)
(* tick count above every other time of the model.                         *)
(*                                                                         *)
(* JavaScript values.  null is <<>> and a present value v is <<v>>, so a   *)
(* dimension's entry <<>> is null and << <<>> >> is the empty array.       *)
(* Array indices are 0-based as in the source; the i-th element of a list  *)
(* is list[i + 1].                                                         *)
(***************************************************************************)
EXTENDS Integers, Sequences, FiniteSets, TLC, Bags

VARIABLES
    dimensionData,     \* this.dimensionData: title -> null | array of segments
    currentDimension,  \* this.currentDimension
    segments,          \* this.segments: null, or <<t>>: the very array stored in dimensionData[t]
    pointerDown,       \* this.pointerDown
    activeSegIndex,    \* this.activeSegIndex: null or <<index>>
    activeHandle,      \* this.activeHandle: null or <<[index, startSeg, endSeg]>>
    duration,          \* wavesurfer.getDuration(): 0 until the audio is decoded
    lastOp,            \* the event or call handled last ("coordinator": a step of the
                       \* coordinator other than loadSong)
    thrown,            \* whether that handler ended with an uncaught TypeError
    emitted,           \* the change notifications that handler emitted, in order
    held,              \* the object a caller of the API holds: null or <<[obj, alias]>>
    listeners,         \* this._listeners['change']: the registered callbacks, in order
    invoked,           \* the callbacks the last event called, in call order
    completion,        \* the coordinator's last completion check: null or <<[ratingData, result]>>
    view,              \* the widget's timers, render loop, overlay bitmap and zoom level
    probe,             \* the last call of a function under test: null or <<[op, input, result]>>
    currentSongIndex,  \* StudyCoordinator: this.currentSongIndex
    localRatings,      \* StudyCoordinator: this.localRatings, song index -> null | stored data
    coordinator        \* StudyCoordinator: its other fields, its requests in flight, the server

vars == <<dimensionData, currentDimension, segments, pointerDown, activeSegIndex,
          activeHandle, duration, lastOp, thrown, emitted, held, listeners, invoked,
          completion, view, probe, currentSongIndex, localRatings, coordinator>>

----------------------------------------------------------------------------
(* Bounds and inputs *)

\* the most segments the widget holds, over all dimensions, for a split to be taken
MaxSegs == 3

\* the most callbacks registered for 'change' at a time
MaxListeners == 2

\* pointer x positions (CSS px, relative to the overlay)
XS == {10, 20}

\* pointer y positions (CSS px, relative to the overlay); a captured pointer
\* may leave the overlay, so y may be negative or exceed its height
YS == {217}

\* pointer y positions of value drags: the top edge, a step border, the
\* bottom edge of the displayed overlay
YSView == {0, 47, 124}

\* pointer x positions of value drags, and of the splits and merges of a
\* study: inside the first segment, away from every boundary
XSView == {10}

\* durations the decoder may report, in ticks (1 s)
Durations == {100}

\* the most delayed _resizeOverlay callbacks pending at a time
MaxTimers == 2

\* the most zoom-in steps above the default zoom
MaxZoom == 2

\* window.devicePixelRatio
DPRs == {1, 2}

\* the songs of the study (indices into songs_to_rate)
Songs == {0, 1}

----------------------------------------------------------------------------
(* Program constants *)

MIN_SEG == 8
epsilon == 2
HANDLE_HIT == 8
SENTINEL == 1000000
CANVAS_HEIGHT == 140
DurationFallback == 100
CanvasDefaultHeight == 150
ScrollWidth == 100
ScrollLeft == 0
XClamp == 10000

Null == <<>>
Some(v) == <<v>>

Min(S) == CHOOSE m \in S : \A n \in S : m <= n
MaxOf(a, b) == IF a >= b THEN a ELSE b
MinOf(a, b) == IF a <= b THEN a ELSE b
Abs(a) == IF a < 0 THEN -a ELSE a

\* the JSON value null in a field of a dimension's configuration; a number v
\* is <<v>> and an absent field <<>>, so the three differ in length
NullField == <<0, 0>>

\* the configured dimensions; an absent field is <<>>
rating_dimensions ==
    << [dimension_title |-> "arousal", num_values |-> 5,
        minimal_value |-> <<-2>>, default_value |-> <<0>>],
       [dimension_title |-> "flow", num_values |-> 5,
        minimal_value |-> <<>>, default_value |-> <<>>] >>

Titles == {rating_dimensions[i].dimension_title : i \in DOMAIN rating_dimensions}

DimOf(title) ==
    rating_dimensions[CHOOSE i \in DOMAIN rating_dimensions :
                          rating_dimensions[i].dimension_title = title]

\* dim.minimal_value || 0
MinimalValueOrZero(dim) ==
    IF dim.minimal_value = <<>> \/ dim.minimal_value = <<0>> THEN 0
    ELSE dim.minimal_value[1]

GetValueRange(dim) ==
    [min |-> MinimalValueOrZero(dim),
     max |-> MinimalValueOrZero(dim) + dim.num_values - 1]

\* dim.default_value !== undefined ? dim.default_value : min + floor(num_values / 2)
\* as a JavaScript value: null, or <<number>>
DefaultSegmentValue(dim) ==
    IF dim.default_value = <<>> THEN Some(MinimalValueOrZero(dim) + (dim.num_values \div 2))
    ELSE IF dim.default_value = NullField THEN Null
    ELSE Some(dim.default_value[1])

\* the same as a number, for a dimension whose default_value is not null
DefaultValue(dim) == DefaultSegmentValue(dim)[1]

\* a segment whose value is null has no value field
segmentsDefault(dim) ==
    IF DefaultSegmentValue(dim) = Null THEN << [start |-> 0, end |-> SENTINEL] >>
    ELSE << [start |-> 0, end |-> SENTINEL, value |-> DefaultValue(dim)] >>

Defaults == [t \in Titles |-> Some(segmentsDefault(DimOf(t)))]

\* JSON.parse(JSON.stringify(v)) of null or of an array of segments
JSONCopyList(o) ==
    IF o = Null THEN Null
    ELSE Some([i \in 1..Len(o[1]) |->
                 [start |-> o[1][i].start, end |-> o[1][i].end, value |-> o[1][i].value]])

JSONCopy(dd) == [t \in DOMAIN dd |-> JSONCopyList(dd[t])]

\* what  this.segments = this.dimensionData[t]  leaves in this.segments
RefTo(dd, t) == IF dd[t] = Null THEN Null ELSE Some(t)

RECURSIVE SumLen(_, _)
SumLen(dd, ts) ==
    IF ts = {} THEN 0
    ELSE LET t == CHOOSE u \in ts : TRUE
         IN  (IF dd[t] = Null THEN 0 ELSE Len(dd[t][1])) + SumLen(dd, ts \ {t})

\* the number of segments held, over all dimensions
TotalSegs == SumLen(dimensionData, DOMAIN dimensionData)

\* the array this.segments refers to (segments is not null)
Segs == dimensionData[segments[1]][1]

\* one array shared by every dimension: a write shows under every title
WithSegsShared(list) == [t \in DOMAIN dimensionData |-> Some(list)]

\* this.dimensionData after the array this.segments refers to became list
WithSegs(list) == [dimensionData EXCEPT ![segments[1]] = Some(list)]

----------------------------------------------------------------------------
(* Time <-> pixel mapping *)

DurationOrOne == IF duration > 0 THEN duration ELSE DurationFallback

\* _timeToX(time) * DurationOrOne
TimeToXScaled(time) ==
    LET x == time * ScrollWidth - ScrollLeft * DurationOrOne
    IN  MaxOf(-XClamp * DurationOrOne, MinOf(XClamp * DurationOrOne, x))

XToTime(x) == ((x + ScrollLeft) * DurationOrOne) \div ScrollWidth

FindSegmentIndexAtTime(time) ==
    LET hits == {i \in 0..(Len(Segs) - 1) :
                    Segs[i + 1].start <= time /\ time <= Segs[i + 1].end}
    IN  IF hits = {} THEN -1 ELSE Min(hits)

HitTestHandle(x) ==
    LET hits == {i \in 1..(Len(Segs) - 1) :
                    Abs(TimeToXScaled(Segs[i + 1].start) - x * DurationOrOne)
                        <= HANDLE_HIT * DurationOrOne}
    IN  IF hits = {} THEN Null ELSE Some([i |-> Min(hits)])

----------------------------------------------------------------------------
(* Segment list edits, as the handlers perform them *)

\* overlayHeight of _resizeOverlay: the displayed (CSS) height of the overlay
OverlayHeight == CANVAS_HEIGHT - 16

\* this.overlay.height as _resizeOverlay sets it: Math.round(overlayHeight * dpr)
OverlayBitmapHeight(dpr) == OverlayHeight * dpr

\* Math.round(ratio * (num_steps - 1)) with ratio = 1 - y / h, h = this.overlay.height
RawStep(dim, y) ==
    (2 * (view.overlayHeight - y) * (dim.num_values - 1) + view.overlayHeight)
        \div (2 * view.overlayHeight)

\* the value a value drag at y stores
ValueAtY(dim, y) ==
    GetValueRange(dim).min + MaxOf(0, MinOf(dim.num_values - 1, RawStep(dim, y)))

\* the boundary a boundary drag to time stores
NewBoundary(leftSeg, rightSeg, time) ==
    MaxOf(leftSeg.start + epsilon, MinOf(rightSeg.end - epsilon, time))

MoveBoundary(list, h, time) ==
    LET nb == NewBoundary(list[h.startSeg + 1], list[h.endSeg + 1], time)
    IN  [i \in 1..Len(list) |->
            IF i = h.startSeg + 1 /\ i = h.endSeg + 1
                THEN [list[i] EXCEPT !.end = nb, !.start = nb]
            ELSE IF i = h.startSeg + 1 THEN [list[i] EXCEPT !.end = nb]
            ELSE IF i = h.endSeg + 1 THEN [list[i] EXCEPT !.start = nb]
            ELSE list[i]]

SetValue(list, index, v) == [list EXCEPT ![index + 1].value = v]

\* a length test that looks at the left part only
TooShortStartOnly(seg, time) == (time - seg.start) < MIN_SEG

\* (time - seg.start) < MIN_SEG || (seg.end - time) < MIN_SEG
TooShort(seg, time) == (time - seg.start) < MIN_SEG \/ (seg.end - time) < MIN_SEG

\* a split that puts the new segment in front of the shortened one
SplitAtBefore(list, si, time) ==
    SubSeq(list, 1, si)
        \o << [start |-> time, end |-> list[si + 1].end, value |-> list[si + 1].value],
              [list[si + 1] EXCEPT !.end = time] >>
        \o SubSeq(list, si + 2, Len(list))

\* seg.end = time; this.segments.splice(si + 1, 0, right)
SplitAt(list, si, time) ==
    SubSeq(list, 1, si)
        \o << [list[si + 1] EXCEPT !.end = time],
              [start |-> time, end |-> list[si + 1].end, value |-> list[si + 1].value] >>
        \o SubSeq(list, si + 2, Len(list))

\* a merge that keeps the right segment's value
DeleteBoundaryKeepRight(list, i) ==
    SubSeq(list, 1, i - 1)
        \o << [list[i + 1] EXCEPT !.start = list[i].start] >>
        \o SubSeq(list, i + 2, Len(list))

\* left.end = right.end; this.segments.splice(i, 1)
DeleteBoundary(list, i) ==
    SubSeq(list, 1, i - 1)
        \o << [list[i] EXCEPT !.end = list[i + 1].end] >>
        \o SubSeq(list, i + 2, Len(list))

----------------------------------------------------------------------------
(* StudyCoordinator: completion of a song's ratings.  Rating data is a map
   title -> null | array, as getData() returns it; a segment without a value
   field stands for value undefined or null, and <<>> in a list for a null
   element. *)

\* this.studyConfig.rating_dimensions.map(dim => dim.dimension_title)
requiredDimensions ==
    [i \in DOMAIN rating_dimensions |-> rating_dimensions[i].dimension_title]

\* what getDefaultValueForDimension returns once dim is found, as a JavaScript
\* value: null, or <<number>>
GetDefaultValueOf(dim) ==
    IF dim.default_value = <<>> THEN Some(MinimalValueOrZero(dim) + (dim.num_values \div 2))
    ELSE IF dim.default_value = NullField THEN Null
    ELSE Some(dim.default_value[1])

GetDefaultValueForDimension(dimensionName) ==
    IF dimensionName \notin Titles THEN 0
    ELSE GetDefaultValueOf(DimOf(dimensionName))[1]

\* segment.value, null when the element is null or has no value
ValueOf(segment) == IF "value" \in DOMAIN segment THEN Some(segment.value) ELSE Null

\* a test that takes an absent, null or empty list for rated
IsMissingSingleOnly(ratingData, dimName) ==
    /\ dimName \in DOMAIN ratingData
    /\ ratingData[dimName] # Null
    /\ Len(ratingData[dimName][1]) = 1
    /\ \/ ValueOf(ratingData[dimName][1][1]) = Null
       \/ ValueOf(ratingData[dimName][1][1])[1] = GetDefaultValueForDimension(dimName)

\* a test that looks at the values only: missing while every value is the default
IsMissingByValues(ratingData, dimName) ==
    \/ dimName \notin DOMAIN ratingData
    \/ ratingData[dimName] = Null
    \/ \A i \in 1..Len(ratingData[dimName][1]) :
          \/ ValueOf(ratingData[dimName][1][i]) = Null
          \/ ValueOf(ratingData[dimName][1][i])[1] = GetDefaultValueForDimension(dimName)

\* the forEach body of checkRatingDataComplete on an entry that is present:
\* whether it counts as missing, defaultValue being null or <<number>>
MissingEntry(entry, defaultValue) ==
    IF entry = Null \/ Len(entry[1]) = 0 THEN TRUE
    ELSE IF Len(entry[1]) > 1 THEN FALSE
    ELSE IF ValueOf(entry[1][1]) = Null THEN TRUE
    ELSE ValueOf(entry[1][1]) = defaultValue

\* whether the forEach body of checkRatingDataComplete pushes dimName
IsMissing(ratingData, dimName) ==
    IF dimName \notin DOMAIN ratingData THEN TRUE
    ELSE MissingEntry(ratingData[dimName], Some(GetDefaultValueForDimension(dimName)))

CheckRatingDataComplete(ratingData) ==
    IF DOMAIN ratingData = {}
    THEN [isComplete |-> FALSE, missingDimensions |-> requiredDimensions]
    ELSE LET missingDimensions ==
                 SelectSeq(requiredDimensions, LAMBDA t : IsMissing(ratingData, t))
         IN  [isComplete |-> Len(missingDimensions) = 0,
              missingDimensions |-> missingDimensions]

----------------------------------------------------------------------------
(* Change notifications *)

EmitChange(reason, dd, cur) ==
    [reason |-> reason, dimension |-> cur, data |-> JSONCopy(dd)]

\* the callbacks a caller registers; the second one throws when called
Callbacks == {"recorder", "failing"}

CallbackThrows(cb) == cb = "failing"

\* an _emit without the try / catch: the first exception ends the loop
RECURSIVE EmitUntilThrow(_)
EmitUntilThrow(ls) ==
    IF ls = <<>> THEN <<>>
    ELSE IF CallbackThrows(Head(ls)) THEN <<Head(ls)>>
    ELSE <<Head(ls)>> \o EmitUntilThrow(Tail(ls))

\* _emit: the callbacks called, in call order; an exception of one is caught
\* and logged, and the loop goes on
RECURSIVE Emit(_)
Emit(ls) ==
    IF ls = <<>> THEN <<>>
    ELSE <<Head(ls)>> \o Emit(Tail(ls))

\* the callbacks called by a handler that emitted the notifications em
EmitCalls(ls, em) == IF em = <<>> THEN <<>> ELSE Emit(ls)

----------------------------------------------------------------------------
(* StudyCoordinator: its fields and the callback it registers on 'change'.
   coordinator is a record:
     initialized       "no" until init() has run, then "done", or "failed"
                       when init() ended with an exception
     phase             the active study phase
     isLoading, backendAvailable
     songSyncStatus    song -> "none" (no key) | "synced" | "modified"
     source            song -> the source field of its localRatings entry
     widget            null, or <<s>>: this.widget, created for song s
     orphans           widgets that are neither destroyed nor this.widget
     wavesurfer        whether AudioRatingWidget._WaveSurfer is set
     creates           the create() calls awaiting the import: a bag of songs
     posts             the ratings POSTs in flight: a bag of [song, data]
     accepted          song -> null | <<data>>: what the server holds
     submitDisabled    the disabled attribute of the submit-rating button
     buttonTimer       whether a setTimeout(updateSubmitButtonState, 10) is
                       pending; the callbacks of loads that follow each other
                       within the 10 ms are taken to run together *)

\* the most create() calls awaiting the import at a time
MaxCreates == 2

\* the most ratings POSTs in flight at a time
MaxPosts == 2

\* the fields the constructor sets; the button is enabled as in the page
CoordinatorConstructed ==
    [initialized |-> "no", phase |-> "introduction", isLoading |-> FALSE,
     backendAvailable |-> FALSE,
     songSyncStatus |-> [s \in Songs |-> "none"],
     source |-> [s \in Songs |-> "none"],
     widget |-> Null, orphans |-> 0, wavesurfer |-> FALSE,
     creates |-> EmptyBag, posts |-> EmptyBag,
     accepted |-> [s \in Songs |-> Null],
     submitDisabled |-> FALSE, buttonTimer |-> FALSE]

\* updateSubmitButtonState, data being this.widget.getData()
UpdateSubmitButtonState(c, data, cur) ==
    [c EXCEPT !.submitDisabled =
        IF ~c.backendAvailable THEN TRUE
        ELSE IF c.widget = Null THEN TRUE
        ELSE IF ~CheckRatingDataComplete(data).isComplete THEN TRUE
        ELSE c.songSyncStatus[cur] = "synced"]

\* setLoading: submitBtn.disabled = loading
SetLoading(c, loading) ==
    [c EXCEPT !.isLoading = loading, !.submitDisabled = loading]

\* the callback loadSong registers: synced -> modified, then updateAllUI
ChangeCallback(c, data, cur, ratings) ==
    UpdateSubmitButtonState(
        [c EXCEPT !.songSyncStatus[cur] = IF @ = "synced" THEN "modified" ELSE @],
        data, cur)

\* the coordinator after _emit has called the callbacks inv of this.widget
Notified(c, inv, dd, cur, ratings) ==
    IF \E i \in DOMAIN inv : inv[i] = "coordinator"
    THEN ChangeCallback(c, JSONCopy(dd), cur, ratings)
    ELSE c

\* isSongCompletelyRated(songIndex)
IsSongCompletelyRated(c, songIndex, cur, data, ratings) ==
    IF songIndex = cur /\ c.widget # Null
    THEN CheckRatingDataComplete(data).isComplete
    ELSE /\ ratings[songIndex] # Null
         /\ CheckRatingDataComplete(ratings[songIndex][1]).isComplete

\* a check that asks for the sync status only
AllSongsSynced(c, cur, data, ratings) ==
    \A i \in Songs : c.songSyncStatus[i] = "synced"

\* areAllSongsSavedToServer()
AreAllSongsSavedToServer(c, cur, data, ratings) ==
    \A i \in Songs : /\ IsSongCompletelyRated(c, i, cur, data, ratings)
                     /\ c.songSyncStatus[i] = "synced"

----------------------------------------------------------------------------
(* The state create() resolves with *)

\* the view of a widget create() has resolved with: the window listeners are
\* registered, the 300 ms resize is pending, no frame is requested before
\* 'ready', and the canvas has the height of a canvas without attributes
ViewAfterCreate(dpr) ==
    [destroyed |-> FALSE, resizeListener |-> TRUE, renderLoop |-> FALSE,
     timers |-> 1, dpr |-> dpr, overlayHeight |-> CanvasDefaultHeight,
     zoom |-> 0, drew |-> FALSE]

Init ==
    /\ dimensionData = Defaults
    /\ currentDimension = rating_dimensions[1].dimension_title
    /\ segments = Null
    /\ pointerDown = FALSE
    /\ activeSegIndex = Null
    /\ activeHandle = Null
    /\ duration = 0
    /\ lastOp = "create"
    /\ thrown = FALSE
    /\ emitted = <<>>
    /\ held = Null
    /\ listeners = <<>>
    /\ invoked = <<>>
    /\ completion = Null
    /\ view = ViewAfterCreate(1)
    /\ probe = Null
    /\ currentSongIndex = 0
    /\ localRatings = [s \in Songs |-> Null]
    /\ coordinator = CoordinatorConstructed

----------------------------------------------------------------------------
(* Pointer handlers *)

OnPointerDown(x) ==
    /\ UNCHANGED <<held, listeners, completion, view, probe, currentSongIndex, localRatings>>
    /\ lastOp' = "pointerdown"
    /\ pointerDown' = TRUE
    /\ emitted' = <<>>
    /\ UNCHANGED <<dimensionData, currentDimension, segments, duration>>
    /\ IF segments = Null
       THEN /\ thrown' = TRUE
            /\ UNCHANGED <<activeHandle, activeSegIndex>>
       ELSE /\ thrown' = FALSE
            /\ LET handle == HitTestHandle(x)
                   si == FindSegmentIndexAtTime(XToTime(x))
               IN  IF handle # Null
                   THEN /\ activeHandle' = Some([index |-> handle[1].i,
                                                 startSeg |-> handle[1].i - 1,
                                                 endSeg |-> handle[1].i])
                        /\ UNCHANGED activeSegIndex
                   ELSE /\ activeSegIndex' = IF si >= 0 THEN Some(si) ELSE activeSegIndex
                        /\ UNCHANGED activeHandle
    /\ invoked' = EmitCalls(listeners, emitted')
    /\ coordinator' = Notified(coordinator, invoked', dimensionData', currentSongIndex, localRatings)

\* a release that leaves the drag target in place
OnPointerUpKeepsTarget ==
    /\ UNCHANGED <<held, listeners, completion, view, probe, currentSongIndex, localRatings>>
    /\ lastOp' = "pointerup"
    /\ pointerDown' = FALSE
    /\ thrown' = (segments = Null)
    /\ emitted' = <<>>
    /\ UNCHANGED <<dimensionData, currentDimension, segments, duration,
                   activeSegIndex, activeHandle>>
    /\ invoked' = EmitCalls(listeners, emitted')
    /\ coordinator' = Notified(coordinator, invoked', dimensionData', currentSongIndex, localRatings)

OnPointerUp ==
    /\ UNCHANGED <<held, listeners, completion, view, probe, currentSongIndex, localRatings>>
    /\ lastOp' = "pointerup"
    /\ pointerDown' = FALSE
    /\ activeSegIndex' = Null
    /\ activeHandle' = Null
    /\ thrown' = (segments = Null)
    /\ emitted' = <<>>
    /\ UNCHANGED <<dimensionData, currentDimension, segments, duration>>
    /\ invoked' = EmitCalls(listeners, emitted')
    /\ coordinator' = Notified(coordinator, invoked', dimensionData', currentSongIndex, localRatings)

OnPointerMove(x, y) ==
    /\ UNCHANGED <<held, listeners, completion, view, probe, currentSongIndex, localRatings>>
    /\ lastOp' = "pointermove"
    /\ UNCHANGED <<currentDimension, segments, pointerDown, activeSegIndex,
                   activeHandle, duration>>
    /\ IF ~pointerDown
       THEN /\ thrown' = FALSE
            /\ emitted' = <<>>
            /\ UNCHANGED dimensionData
       ELSE IF activeHandle # Null
       THEN IF segments = Null \/ activeHandle[1].endSeg >= Len(Segs)
            THEN \* this.segments[...] of null, or leftSeg / rightSeg undefined
                 /\ thrown' = TRUE
                 /\ emitted' = <<>>
                 /\ UNCHANGED dimensionData
            ELSE /\ dimensionData' = WithSegs(MoveBoundary(Segs, activeHandle[1], XToTime(x)))
                 /\ thrown' = FALSE
                 /\ emitted' = <<EmitChange("boundary_moved", dimensionData', currentDimension)>>
       ELSE IF activeSegIndex # Null
       THEN IF segments = Null \/ activeSegIndex[1] >= Len(Segs)
            THEN \* this.segments[...] of null, or seg undefined
                 /\ thrown' = TRUE
                 /\ emitted' = <<>>
                 /\ UNCHANGED dimensionData
            ELSE /\ dimensionData' = WithSegs(SetValue(Segs, activeSegIndex[1],
                                                ValueAtY(DimOf(currentDimension), y)))
                 /\ thrown' = FALSE
                 /\ emitted' = <<EmitChange("rating_changed", dimensionData', currentDimension)>>
       ELSE /\ thrown' = FALSE
            /\ emitted' = <<>>
            /\ UNCHANGED dimensionData
    /\ invoked' = EmitCalls(listeners, emitted')
    /\ coordinator' = Notified(coordinator, invoked', dimensionData', currentSongIndex, localRatings)

OnDblClick(x) ==
    /\ UNCHANGED <<held, listeners, completion, view, probe, currentSongIndex, localRatings>>
    /\ lastOp' = "dblclick"
    /\ UNCHANGED <<currentDimension, segments, pointerDown, activeSegIndex,
                   activeHandle, duration>>
    /\ IF segments = Null
       THEN /\ thrown' = TRUE
            /\ emitted' = <<>>
            /\ UNCHANGED dimensionData
       ELSE LET time == XToTime(x)
                si == FindSegmentIndexAtTime(time)
            IN  /\ thrown' = FALSE
                /\ IF si = -1
                   THEN /\ emitted' = <<>>
                        /\ UNCHANGED dimensionData
                   ELSE IF TooShort(Segs[si + 1], time)
                   THEN /\ emitted' = <<>>
                        /\ UNCHANGED dimensionData
                   ELSE /\ TotalSegs < MaxSegs
                        /\ dimensionData' = WithSegs(SplitAt(Segs, si, time))
                        /\ emitted' = <<EmitChange("segment_added", dimensionData', currentDimension)>>
    /\ invoked' = EmitCalls(listeners, emitted')
    /\ coordinator' = Notified(coordinator, invoked', dimensionData', currentSongIndex, localRatings)

OnContextMenu(x) ==
    /\ UNCHANGED <<held, listeners, completion, view, probe, currentSongIndex, localRatings>>
    /\ lastOp' = "contextmenu"
    /\ UNCHANGED <<currentDimension, segments, pointerDown, activeSegIndex,
                   activeHandle, duration>>
    /\ IF segments = Null
       THEN /\ thrown' = TRUE
            /\ emitted' = <<>>
            /\ UNCHANGED dimensionData
       ELSE LET handle == HitTestHandle(x)
            IN  /\ thrown' = FALSE
                /\ IF handle # Null
                   THEN /\ dimensionData' = WithSegs(DeleteBoundary(Segs, handle[1].i))
                        /\ emitted' = <<EmitChange("segment_deleted", dimensionData', currentDimension)>>
                   ELSE /\ emitted' = <<>>
                        /\ UNCHANGED dimensionData
    /\ invoked' = EmitCalls(listeners, emitted')
    /\ coordinator' = Notified(coordinator, invoked', dimensionData', currentSongIndex, localRatings)

\* The overlay loses the pointer capture a press took (lostpointercapture, or
\* pointercancel, without a pointerup): _bindUI registers no listener for
\* either event, so no code of the widget runs.
LostPointerCapture ==
    /\ pointerDown
    /\ (activeHandle # Null \/ activeSegIndex # Null)
    /\ lastOp' = "lostpointercapture"
    /\ thrown' = FALSE
    /\ emitted' = <<>>
    /\ invoked' = <<>>
    /\ UNCHANGED <<dimensionData, currentDimension, segments, pointerDown,
                   activeSegIndex, activeHandle, duration, held, listeners, completion, view, probe, currentSongIndex, localRatings, coordinator>>

----------------------------------------------------------------------------
(* Dimension buttons *)

DimensionButtonClick(d) ==
    /\ UNCHANGED <<held, listeners, completion, view, probe, currentSongIndex, localRatings>>
    /\ lastOp' = "dimension_button"
    /\ dimensionData' =
           [dimensionData EXCEPT ![currentDimension] =
               IF segments = Null THEN Null ELSE JSONCopyList(Some(Segs))]
    /\ currentDimension' = d
    /\ segments' = RefTo(dimensionData', d)
    \* _drawAll throws on null segments, before _emitChange is reached
    /\ thrown' = (segments' = Null)
    /\ emitted' = IF segments' = Null THEN <<>>
                  ELSE <<EmitChange("dimension_changed", dimensionData', d)>>
    /\ UNCHANGED <<pointerDown, activeSegIndex, activeHandle, duration>>
    /\ invoked' = EmitCalls(listeners, emitted')
    /\ coordinator' = Notified(coordinator, invoked', dimensionData', currentSongIndex, localRatings)

----------------------------------------------------------------------------
(* Public API: getData / setData *)

GetData == JSONCopy(dimensionData)

\* { ...data, ...defaults }
MergeDefaultsLast(defaults, data) ==
    [t \in (DOMAIN defaults) \cup (DOMAIN data) |->
        IF t \in DOMAIN defaults THEN defaults[t] ELSE data[t]]

\* { ...defaults, ...data }
Merge(defaults, data) ==
    [t \in (DOMAIN defaults) \cup (DOMAIN data) |->
        IF t \in DOMAIN data THEN data[t] ELSE defaults[t]]

\* payloads handed to setData: nothing stored, ratings stored for a 1 s
\* recording (one dimension only), a dimension mapped to an empty list, and a
\* rating outside the dimension's range
PayloadEmpty == [t \in {} |-> Null]
PayloadRestored ==
    [t \in {"arousal"} |->
        Some(<< [start |-> 0, end |-> 20, value |-> 1],
                [start |-> 20, end |-> 100, value |-> -2] >>)]
PayloadEmptyList == [t \in {"flow"} |-> Some(<<>>)]
PayloadBadValue ==
    [t \in {"flow"} |-> Some(<< [start |-> 0, end |-> SENTINEL, value |-> 9] >>)]

\* a partition of [0, 1 s] whose first three segments are 0.01 s long
PayloadShortSegments ==
    [t \in {"arousal"} |->
        Some(<< [start |-> 0, end |-> 1, value |-> 1],
                [start |-> 1, end |-> 2, value |-> 0],
                [start |-> 2, end |-> 3, value |-> 0],
                [start |-> 3, end |-> 100, value |-> -2] >>)]

Payloads == {PayloadEmpty, PayloadRestored, PayloadEmptyList, PayloadBadValue,
             PayloadShortSegments}

SetDataHandler(data) ==
    /\ lastOp' = "setData"
    /\ dimensionData' = JSONCopy(Merge(Defaults, data))
    /\ segments' = RefTo(dimensionData', currentDimension)
    \* _drawAll throws on null segments
    /\ thrown' = (segments' = Null)
    /\ emitted' = <<>>
    /\ UNCHANGED <<currentDimension, pointerDown, activeSegIndex, activeHandle, duration>>
    /\ UNCHANGED <<listeners, completion, view, probe, currentSongIndex, localRatings>>
    /\ invoked' = EmitCalls(listeners, emitted')
    /\ coordinator' = Notified(coordinator, invoked', dimensionData', currentSongIndex, localRatings)

SetData(data) ==
    /\ SetDataHandler(data)
    /\ UNCHANGED held

----------------------------------------------------------------------------
(* Public API: on / off *)

\* on('change', cb): this._listeners['change'].push(cb)
On(cb) ==
    /\ Len(listeners) < MaxListeners
    /\ listeners' = Append(listeners, cb)
    /\ lastOp' = "on"
    /\ thrown' = FALSE
    /\ emitted' = <<>>
    /\ invoked' = <<>>
    /\ UNCHANGED <<dimensionData, currentDimension, segments, pointerDown,
                   activeSegIndex, activeHandle, duration, held, completion, view, probe, currentSongIndex, localRatings, coordinator>>

\* off('change', cb): filter(c => c !== cb) drops every registration of cb
Off(cb) ==
    /\ listeners' = SelectSeq(listeners, LAMBDA c : c # cb)
    /\ lastOp' = "off"
    /\ thrown' = FALSE
    /\ emitted' = <<>>
    /\ invoked' = <<>>
    /\ UNCHANGED <<dimensionData, currentDimension, segments, pointerDown,
                   activeSegIndex, activeHandle, duration, held, completion, view, probe, currentSongIndex, localRatings, coordinator>>

----------------------------------------------------------------------------
(* Inputs of the completion check *)

\* segment values tried in rating data: both dimensions' ranges
RatingValues == -2..4

\* entries of rating data: null, an empty list, a null element, a segment without
\* a value, one segment of each value, two segments of one value
RatingEntries ==
    {Null, Some(<<>>), Some(<< <<>> >>), Some(<< [start |-> 0, end |-> 100] >>)}
        \cup {Some(<< [start |-> 0, end |-> 100, value |-> v] >>) : v \in RatingValues}
        \cup {Some(<< [start |-> 0, end |-> 50, value |-> v],
                     [start |-> 50, end |-> 100, value |-> v] >>) : v \in {0, 2}}

\* rating data over every subset of the configured dimensions ({} included)
RatingDataInputs == UNION {[S -> RatingEntries] : S \in SUBSET Titles}

CheckCompletion(ratingData) ==
    /\ completion' = Some([ratingData |-> ratingData,
                           result |-> CheckRatingDataComplete(ratingData)])
    /\ lastOp' = "checkRatingDataComplete"
    /\ thrown' = FALSE
    /\ emitted' = <<>>
    /\ invoked' = <<>>
    /\ UNCHANGED <<dimensionData, currentDimension, segments, pointerDown,
                   activeSegIndex, activeHandle, duration, held, listeners,
                   view, probe, currentSongIndex, localRatings, coordinator>>

----------------------------------------------------------------------------
(* Objects in the hands of a caller.  A reference is [obj, alias]: the content,
   and whether the object is part of the widget's own state ("dimensionData")
   or shares nothing with it ("fresh"). *)

\* a getData that hands out this.dimensionData itself
GetDataRefShared == [obj |-> dimensionData, alias |-> "dimensionData"]

\* what getData() returns: JSON.parse(JSON.stringify(...)) builds new objects
GetDataRef == [obj |-> GetData, alias |-> "fresh"]

\* the caller's argument once setData(data) has returned: the widget stored a
\* JSON copy of the merge, so the argument stays the caller's own
SetDataArgRef(data) == [obj |-> data, alias |-> "fresh"]

\* a caller empties every array of an object (arr.length = 0)
Emptied(dd) == [t \in DOMAIN dd |-> IF dd[t] = Null THEN Null ELSE Some(<<>>)]

CallerGetsData ==
    /\ held' = Some(GetDataRef)
    /\ lastOp' = "getData"
    /\ thrown' = FALSE
    /\ emitted' = <<>>
    /\ UNCHANGED <<dimensionData, currentDimension, segments, pointerDown,
                   activeSegIndex, activeHandle, duration>>
    /\ UNCHANGED <<listeners, completion, view, probe, currentSongIndex, localRatings>>
    /\ invoked' = EmitCalls(listeners, emitted')
    /\ coordinator' = Notified(coordinator, invoked', dimensionData', currentSongIndex, localRatings)

CallerSetsData(data) ==
    /\ SetDataHandler(data)
    /\ held' = Some(SetDataArgRef(data))

\* a change handler keeps the snapshot it was called with (event.data is getData())
HandlerKeepsSnapshot ==
    /\ emitted # <<>>
    /\ held' = Some([obj |-> emitted[1].data, alias |-> GetDataRef.alias])
    /\ UNCHANGED <<dimensionData, currentDimension, segments, pointerDown,
                   activeSegIndex, activeHandle, duration, lastOp, thrown, emitted,
                   listeners, invoked, completion, view, probe, currentSongIndex, localRatings, coordinator>>

CallerMutates ==
    /\ held # Null
    /\ held' = Some([held[1] EXCEPT !.obj = Emptied(@)])
    /\ dimensionData' = IF held[1].alias = "dimensionData"
                          THEN Emptied(dimensionData) ELSE dimensionData
    /\ lastOp' = "caller_mutation"
    /\ thrown' = FALSE
    /\ emitted' = <<>>
    /\ UNCHANGED <<currentDimension, segments, pointerDown, activeSegIndex,
                   activeHandle, duration>>
    /\ UNCHANGED <<listeners, completion, view, probe, currentSongIndex, localRatings>>
    /\ invoked' = EmitCalls(listeners, emitted')
    /\ coordinator' = Notified(coordinator, invoked', dimensionData', currentSongIndex, localRatings)

----------------------------------------------------------------------------
(* wavesurfer 'ready' *)

\* s.end = duration if s.end > duration, for every segment of the list
ClampEnds(list, d) ==
    [i \in 1..Len(list) |-> IF list[i].end > d THEN [list[i] EXCEPT !.end = d] ELSE list[i]]

\* positions (in key order) of the dimensions whose entry is null
NullPositions ==
    {i \in DOMAIN rating_dimensions : dimensionData[rating_dimensions[i].dimension_title] = Null}

OnReady(d) ==
    /\ UNCHANGED <<held, listeners, completion, probe, currentSongIndex, localRatings>>
    /\ duration = 0
    /\ lastOp' = "ready"
    /\ duration' = d
    \* the loop over the dimensions stops with a TypeError at the first null entry
    /\ dimensionData' =
           [t \in DOMAIN dimensionData |->
               LET pos == CHOOSE i \in DOMAIN rating_dimensions :
                              rating_dimensions[i].dimension_title = t
               IN  IF \E n \in NullPositions : n <= pos THEN dimensionData[t]
                   ELSE Some(ClampEnds(dimensionData[t][1], d))]
    \* then _resizeOverlay -> _drawAll throws on null segments
    /\ thrown' = (NullPositions # {} \/ segments = Null)
    \* _startRenderLoop is reached only if nothing threw before it
    /\ view' = IF NullPositions # {} THEN [view EXCEPT !.drew = FALSE]
               ELSE [view EXCEPT !.overlayHeight = OverlayBitmapHeight(view.dpr),
                                 !.drew = TRUE,
                                 !.renderLoop = (segments # Null)]
    /\ emitted' = <<>>
    /\ UNCHANGED <<currentDimension, segments, pointerDown, activeSegIndex, activeHandle>>
    /\ invoked' = EmitCalls(listeners, emitted')
    /\ coordinator' = Notified(coordinator, invoked', dimensionData', currentSongIndex, localRatings)

----------------------------------------------------------------------------
(* Redraws, delayed resizes, zoom, scroll and destroy.  view.renderLoop says
   that a frame callback is requested, view.timers counts the pending
   setTimeout(() => this._resizeOverlay()) callbacks, view.zoom is the number
   of zoom-in steps above the default (px/s = default * 1.5^zoom), and
   view.drew says whether the last of these steps called _drawAll.
   wavesurfer.zoom() is taken to deliver 'zoom' to the widget's listener
   before it returns. *)

\* what a step of this section leaves alone
ViewFrame ==
    /\ emitted' = <<>>
    /\ invoked' = <<>>
    /\ UNCHANGED <<dimensionData, currentDimension, segments, pointerDown,
                   activeSegIndex, activeHandle, duration, held, listeners,
                   completion, probe, currentSongIndex, localRatings, coordinator>>

\* a frame callback that, besides drawing, clamps the list under edit
FrameTickClamping ==
    /\ view.renderLoop
    /\ lastOp' = "frame"
    /\ thrown' = (segments = Null)
    /\ view' = [view EXCEPT !.drew = TRUE, !.renderLoop = (segments # Null)]
    /\ emitted' = <<>>
    /\ invoked' = <<>>
    /\ dimensionData' = IF segments = Null THEN dimensionData
                          ELSE WithSegs([i \in 1..Len(Segs) |->
                                           [Segs[i] EXCEPT !.end = MinOf(@, DurationOrOne)]])
    /\ UNCHANGED <<currentDimension, segments, pointerDown, activeSegIndex,
                   activeHandle, duration, held, listeners, completion, probe,
                   currentSongIndex, localRatings, coordinator>>

\* loop = () => { this._drawAll(); this.renderLoop = requestAnimationFrame(loop); }
\* _drawAll throws on null segments, and then no further frame is requested
FrameTick ==
    /\ view.renderLoop
    /\ lastOp' = "frame"
    /\ thrown' = (segments = Null)
    /\ view' = [view EXCEPT !.drew = TRUE, !.renderLoop = (segments # Null)]
    /\ ViewFrame

\* window 'resize': this._onResize schedules a resize 120 ms later
WindowResize ==
    /\ view.resizeListener
    /\ view.timers < MaxTimers
    /\ lastOp' = "resize"
    /\ thrown' = FALSE
    /\ view' = [view EXCEPT !.timers = @ + 1, !.drew = FALSE]
    /\ ViewFrame

\* a delayed callback runs: _resizeOverlay sets the bitmap size and draws
ResizeTimeout ==
    /\ view.timers > 0
    /\ lastOp' = "resize_timeout"
    /\ thrown' = (segments = Null)
    /\ view' = [view EXCEPT !.timers = @ - 1,
                            !.overlayHeight = OverlayBitmapHeight(view.dpr),
                            !.drew = TRUE]
    /\ ViewFrame

\* the view after a zoom to level z: the 'zoom' listener draws, and the delayed
\* resize is scheduled unless that draw threw
ZoomedTo(z) ==
    [view EXCEPT !.zoom = z, !.drew = TRUE,
                 !.timers = IF segments = Null THEN @ ELSE @ + 1]

ZoomIn ==
    /\ ~view.destroyed
    /\ view.zoom < MaxZoom
    /\ (segments = Null \/ view.timers < MaxTimers)
    /\ lastOp' = "zoom_in"
    /\ thrown' = (segments = Null)
    /\ view' = ZoomedTo(view.zoom + 1)
    /\ ViewFrame

\* at the default zoom the click does nothing; one step above it resets;
\* otherwise one step down
ZoomOut ==
    /\ ~view.destroyed
    /\ (view.zoom = 0 \/ segments = Null \/ view.timers < MaxTimers)
    /\ lastOp' = "zoom_out"
    /\ IF view.zoom = 0
       THEN /\ thrown' = FALSE
            /\ view' = [view EXCEPT !.drew = FALSE]
       ELSE /\ thrown' = (segments = Null)
            /\ view' = ZoomedTo(view.zoom - 1)
    /\ ViewFrame

ResetZoom ==
    /\ ~view.destroyed
    /\ (segments = Null \/ view.timers < MaxTimers)
    /\ lastOp' = "zoom_reset"
    /\ thrown' = (segments = Null)
    /\ view' = ZoomedTo(0)
    /\ ViewFrame

\* wavesurfer 'scroll': the visible window is stored and the overlay drawn
OnScroll ==
    /\ ~view.destroyed
    /\ lastOp' = "scroll"
    /\ thrown' = (segments = Null)
    /\ view' = [view EXCEPT !.drew = TRUE]
    /\ ViewFrame

\* destroy(): the window listeners are removed and the requested frame is
\* cancelled; no clearTimeout is called, so pending timers stay pending.
\* Nothing is removed from wavesurfer either: whether 'ready' still arrives
\* after wavesurfer.destroy() is up to wavesurfer, so OnReady stays enabled.
Destroy ==
    /\ ~view.destroyed
    /\ lastOp' = "destroy"
    /\ thrown' = FALSE
    /\ view' = [view EXCEPT !.destroyed = TRUE, !.resizeListener = FALSE,
                            !.renderLoop = FALSE, !.drew = FALSE]
    /\ ViewFrame

----------------------------------------------------------------------------
(* create(options).  An option is <<>> when absent.  container is a selector
   string that matches an element ("#found") or none ("#missing"), or an
   element ("element"); audioUrl is a URL or the empty string. *)

ContainerOptions == {<<>>, <<"#found">>, <<"#missing">>, <<"element">>}
AudioUrlOptions == {<<>>, <<"">>, <<"song.wav">>}
DimensionOptions == {<<>>, <<rating_dimensions>>}
HeightOptions == {<<>>, <<140>>, <<200>>}

CreateOptions ==
    [container : ContainerOptions, audioUrl : AudioUrlOptions,
     rating_dimensions : DimensionOptions, height : HeightOptions]

\* this.container as the constructor computes it: null, or <<element>>
ResolveContainer(container) ==
    IF container = <<>> \/ container = <<"#missing">> THEN Null
    ELSE Some("element")

\* a create that looks at the container only
CreateOutcomeContainerOnly(options) ==
    IF ResolveContainer(options.container) = Null
    THEN [settled |-> "rejected", error |-> "AudioRatingWidget: container not found"]
    ELSE [settled |-> "resolved", error |-> ""]

\* how the promise create(options) returns settles, the library import having
\* succeeded: the constructor throws inside the async function, or _init
\* rejects at the audioUrl test of _initWaveSurfer, or the widget is returned
CreateOutcome(options) ==
    IF ResolveContainer(options.container) = Null
    THEN [settled |-> "rejected", error |-> "AudioRatingWidget: container not found"]
    ELSE IF options.audioUrl = <<>> \/ options.audioUrl = <<"">>
    THEN [settled |-> "rejected", error |-> "AudioRatingWidget: audioUrl is required"]
    ELSE [settled |-> "resolved", error |-> ""]

\* what a step of the calls below leaves alone
ProbeFrame ==
    /\ thrown' = FALSE
    /\ emitted' = <<>>
    /\ invoked' = <<>>
    /\ UNCHANGED <<dimensionData, currentDimension, segments, pointerDown,
                   activeSegIndex, activeHandle, duration, held, listeners,
                   completion, view, currentSongIndex, localRatings, coordinator>>

\* a caller awaits create(options) for a further widget
Create(options) ==
    /\ probe' = Some([op |-> "create", input |-> options,
                      result |-> CreateOutcome(options)])
    /\ lastOp' = "create_call"
    /\ ProbeFrame

----------------------------------------------------------------------------
(* The time <-> pixel mapping as a function of what wavesurfer reports: the
   duration (ticks, > 0), the wrapper's scrollWidth, clientWidth and
   scrollLeft, and the overlay's bitmap width (pixels).  A pixel position is
   kept multiplied by the duration, and a time is the exact fraction
   num / den; a division by zero gives no finite number (null). *)

ViewDurations == {100, 250}
ScrollWidths == {0, 100, 300, 30000}
ClientWidths == {0, 100}
OverlayWidths == {100}
ScrollLefts == {0, 40}
ViewTimes == {0, 50, 100}

ViewReports ==
    [duration : ViewDurations, scrollWidth : ScrollWidths, clientWidth : ClientWidths,
     overlayWidth : OverlayWidths, scrollLeft : ScrollLefts]

\* a || b || c on numbers: the first that is not 0
FirstNonZero(a, b, c) == IF a # 0 THEN a ELSE IF b # 0 THEN b ELSE c

\* _timeToX(time) * duration
TimeToXIn(v, time) ==
    LET totalWidth == FirstNonZero(v.scrollWidth, v.clientWidth, v.overlayWidth)
        x == time * totalWidth - v.scrollLeft * v.duration
    IN  MaxOf(-XClamp * v.duration, MinOf(XClamp * v.duration, x))

\* _xToTime(xs / duration): ((x + scroll) / wrapper.scrollWidth) * duration
XToTimeIn(v, xs) ==
    IF v.scrollWidth = 0 THEN Null
    ELSE Some([num |-> xs + v.scrollLeft * v.duration, den |-> v.scrollWidth])

\* _xToTime(_timeToX(time)) under one view report
MapRoundTrip(v, time) ==
    /\ probe' = Some([op |-> "map", input |-> [view |-> v, time |-> time],
                      result |-> [x |-> TimeToXIn(v, time),
                                  back |-> XToTimeIn(v, TimeToXIn(v, time))]])
    /\ lastOp' = "map_call"
    /\ ProbeFrame

----------------------------------------------------------------------------
(* The default of a dimension, as the widget stores it and as the completion
   check reads it, for a dimension configured in any of these ways. *)

DimConfigs ==
    [dimension_title : {"valence"}, num_values : {2, 3, 5, 8},
     minimal_value : {<<>>, <<0>>, <<-2>>},
     default_value : {<<>>, NullField, <<0>>, <<1>>}]

\* a widget is created for the one dimension dim (or default-filled by
\* setData({})), and the completion check runs on its data
DefaultsCall(dim) ==
    /\ probe' = Some([op |-> "defaults", input |-> dim,
                      result |-> [data |-> segmentsDefault(dim),
                                  widget |-> DefaultSegmentValue(dim),
                                  coordinator |-> GetDefaultValueOf(dim),
                                  missing |-> MissingEntry(Some(segmentsDefault(dim)),
                                                           GetDefaultValueOf(dim))]])
    /\ lastOp' = "defaults_call"
    /\ ProbeFrame

----------------------------------------------------------------------------
(* StudyCoordinator: switching songs.  localRatings[s] is null or <<data>>,
   the data field of the entry stored under song s's key.  One widget exists
   at a time; the widget variables describe the widget of the current song. *)

\* an auto-save that writes the data under every song's key
AutoSaveAllSongs(ratings, song, data) == [s \in DOMAIN ratings |-> Some(data)]

\* autoSaveCurrentSong: this.localRatings[songKey] = { data: ratingData, ... }
\* unless the data has no key
AutoSaveCurrentSong(ratings, song, data) ==
    IF DOMAIN data = {} THEN ratings
    ELSE [ratings EXCEPT ![song] = Some(data)]

\* loadSong from the point where create() has resolved for songIndex (517-560):
\* this.widget is the new widget, setData of the stored entry if there is one,
\* the 'change' callback, the delayed button update, and setLoading(false) in
\* the finally block.  An exception of setData (its _drawAll on a null list) is
\* caught by loadSong, after the data was assigned and before the callback is
\* registered.  The widget variables describe this.widget from here on.
WidgetLoaded(songIndex, ratings, c) ==
    LET created == Defaults
        restored == IF ratings[songIndex] = Null THEN created
                    ELSE JSONCopy(Merge(Defaults, ratings[songIndex][1]))
        setDataThrew == ratings[songIndex] # Null
                          /\ restored[rating_dimensions[1].dimension_title] = Null
        c1 == [c EXCEPT !.widget = Some(songIndex), !.wavesurfer = TRUE,
                        !.buttonTimer = IF setDataThrew THEN @ ELSE TRUE]
    IN  /\ dimensionData' = restored
        /\ currentDimension' = rating_dimensions[1].dimension_title
        /\ segments' = IF ratings[songIndex] = Null THEN Null
                       ELSE RefTo(restored, currentDimension')
        /\ pointerDown' = FALSE
        /\ activeSegIndex' = Null
        /\ activeHandle' = Null
        /\ duration' = 0
        /\ view' = ViewAfterCreate(view.dpr)
        /\ listeners' = IF setDataThrew THEN <<>> ELSE <<"coordinator">>
        /\ coordinator' = SetLoading(c1, FALSE)
        /\ thrown' = FALSE
        /\ emitted' = <<>>
        /\ invoked' = <<>>
        /\ UNCHANGED <<held, completion, probe>>

\* loadSong(songIndex) with a widget in place and the wavesurfer module
\* loaded, so that no await of it waits for an event: auto-save, the check of
\* a synced song against its stored entry, destroy, create, and the rest.
LoadSong(songIndex) ==
    LET data == GetData
        saved == AutoSaveCurrentSong(localRatings, currentSongIndex, data)
        c1 == [coordinator EXCEPT
                  !.source[currentSongIndex] = IF DOMAIN data = {} THEN @ ELSE "local"]
        c2 == [c1 EXCEPT
                  !.songSyncStatus[currentSongIndex] =
                      IF @ = "synced" /\ saved[currentSongIndex] # Null
                                      /\ saved[currentSongIndex][1] # data
                      THEN "modified" ELSE @]
    IN  /\ localRatings' = saved
        /\ currentSongIndex' = songIndex
        /\ lastOp' = "loadSong"
        /\ WidgetLoaded(songIndex, saved, c2)

----------------------------------------------------------------------------
(* StudyCoordinator: init(), the buttons of the page, and the answers to the
   requests in flight.  A step is one task of the event loop: an event handler
   or the continuation of an await that waits for the network, run up to its
   next such await (an await of a promise that is already settled is part of
   the same step). *)

\* rating data with a rated value in every dimension
PayloadRated ==
    [t \in Titles |->
        Some(<< [start |-> 0, end |-> 100,
                 value |-> IF t = "arousal" THEN 1 ELSE 0] >>)]

\* the outcomes of fetch('./settings/studies_config.json')
LocalConfigOutcomes == {"ok", "not_ok", "failed"}

\* the outcomes of the GET of a song's ratings: not ok (or failed), or ok
\* with the segments the server holds
RatingsOutcomes == {Null, Some(PayloadRated)}

\* what a step of the coordinator leaves alone in the widget
CoordinatorFrame ==
    /\ thrown' = FALSE
    /\ emitted' = <<>>
    /\ invoked' = <<>>
    /\ UNCHANGED <<dimensionData, currentDimension, segments, pointerDown,
                   activeSegIndex, activeHandle, duration, listeners, view,
                   held, completion, probe>>

\* loadLocalStudyConfig: the configuration, or "ReferenceError" where the
\* fallback names FALLBACK_CONFIG, which is declared nowhere
LoadLocalStudyConfig(outcome) ==
    IF outcome = "ok" THEN "config" ELSE "ReferenceError"

\* init(): the local configuration, the backend check, the configuration and
\* the ratings of the backend, the listeners of the buttons.  The configuration
\* of the file and of the backend are the dimensions and songs of this model;
\* a backend whose configuration request fails leaves the state of one whose
\* ratings requests all fail.
CoordinatorInit(local, backendOk, gets) ==
    /\ coordinator.initialized = "no"
    /\ lastOp' = "coordinator"
    /\ IF LoadLocalStudyConfig(local) = "ReferenceError"
       THEN /\ coordinator' = [coordinator EXCEPT !.initialized = "failed"]
            /\ UNCHANGED localRatings
       ELSE /\ localRatings' =
                  [s \in Songs |->
                      IF backendOk /\ gets[s] # Null THEN gets[s] ELSE localRatings[s]]
            /\ coordinator' =
                  [coordinator EXCEPT
                      !.initialized = "done",
                      !.backendAvailable = backendOk,
                      !.songSyncStatus =
                          [s \in Songs |->
                              IF backendOk /\ gets[s] # Null THEN "synced" ELSE @[s]],
                      !.source =
                          [s \in Songs |->
                              IF backendOk /\ gets[s] # Null THEN "backend" ELSE @[s]],
                      !.accepted =
                          [s \in Songs |-> IF backendOk THEN gets[s] ELSE Null]]
    /\ UNCHANGED currentSongIndex
    /\ CoordinatorFrame

\* the coordinator when loadSong, no widget in place, waits in create() for
\* the import of the wavesurfer module: setLoading(true, true)
AwaitingCreate(c, songIndex) ==
    [SetLoading(c, TRUE) EXCEPT !.creates = @ (+) SetToBag({songIndex})]

\* begin-study: startRating() shows the rating phase and loads the current song
StartRating ==
    /\ coordinator.initialized = "done"
    /\ coordinator.phase = "introduction"
    /\ lastOp' = "loadSong"
    /\ coordinator' = AwaitingCreate([coordinator EXCEPT !.phase = "rating"],
                                     currentSongIndex)
    /\ UNCHANGED <<currentSongIndex, localRatings>>
    /\ CoordinatorFrame

\* a song button while the import is pending: loadSong(songIndex) finds no
\* widget and waits in create() as well
LoadSongAwaitingImport(songIndex) ==
    /\ coordinator.phase = "rating"
    /\ ~coordinator.wavesurfer
    /\ coordinator.widget = Null
    /\ BagCardinality(coordinator.creates) < MaxCreates
    /\ lastOp' = "loadSong"
    /\ currentSongIndex' = songIndex
    /\ coordinator' = AwaitingCreate(coordinator, songIndex)
    /\ UNCHANGED localRatings
    /\ CoordinatorFrame

\* a song button once the module is loaded
SongButtonClick(songIndex) ==
    /\ coordinator.phase = "rating"
    /\ coordinator.wavesurfer
    /\ coordinator.widget # Null
    /\ LoadSong(songIndex)

\* the import is done and a waiting create() resolves: its loadSong goes on
\* with the song index it was called with.  The widget that was this.widget,
\* if any, is not destroyed.
CreateResolves(songIndex) ==
    /\ BagIn(songIndex, coordinator.creates)
    /\ lastOp' = "loadSong"
    /\ UNCHANGED <<currentSongIndex, localRatings>>
    /\ WidgetLoaded(songIndex, localRatings,
                    [coordinator EXCEPT
                        !.creates = @ (-) SetToBag({songIndex}),
                        !.orphans = IF coordinator.widget # Null THEN @ + 1 ELSE @])

\* the import failed and a waiting create() rejects: catch and finally
CreateRejects(songIndex) ==
    /\ BagIn(songIndex, coordinator.creates)
    /\ ~coordinator.wavesurfer
    /\ lastOp' = "loadSong"
    /\ coordinator' = SetLoading([coordinator EXCEPT
                                     !.creates = @ (-) SetToBag({songIndex})], FALSE)
    /\ UNCHANGED <<currentSongIndex, localRatings>>
    /\ CoordinatorFrame

\* the delayed callback of loadSong: updateSubmitButtonState()
SubmitButtonTimeout ==
    /\ coordinator.buttonTimer
    /\ lastOp' = "coordinator"
    /\ coordinator' = UpdateSubmitButtonState(
                          [coordinator EXCEPT !.buttonTimer = FALSE],
                          GetData, currentSongIndex)
    /\ UNCHANGED <<currentSongIndex, localRatings>>
    /\ CoordinatorFrame

\* the guards of submitRating: what it needs to go on
SubmitGuards(c, data) ==
    /\ ~c.isLoading
    /\ c.widget # Null
    /\ DOMAIN data # {}
    /\ CheckRatingDataComplete(data).isComplete

\* a click on the submit-rating button, which a disabled button does not
\* deliver: submitRating() up to the await of the POST, or to its end when
\* the backend is not available
SubmitRating ==
    /\ coordinator.initialized = "done"
    /\ coordinator.phase = "rating"
    /\ ~coordinator.submitDisabled
    /\ lastOp' = "coordinator"
    /\ LET data == GetData
           c1 == SetLoading(coordinator, TRUE)
           c2 == [c1 EXCEPT !.source[currentSongIndex] = "local"]
           c3 == UpdateSubmitButtonState(c2, data, currentSongIndex)
       IN  IF ~SubmitGuards(coordinator, data)
           THEN UNCHANGED <<coordinator, localRatings>>
           ELSE /\ localRatings' = [localRatings EXCEPT ![currentSongIndex] = Some(data)]
                /\ IF coordinator.backendAvailable
                   THEN /\ BagCardinality(coordinator.posts) < MaxPosts
                        /\ coordinator' =
                              [c3 EXCEPT !.posts = @ (+) SetToBag({[song |-> currentSongIndex,
                                                                    data |-> data]})]
                   ELSE coordinator' = SetLoading(c3, FALSE)
    /\ UNCHANGED currentSongIndex
    /\ CoordinatorFrame

\* the lines after an ok answer to the POST p: the current song is marked
PostOkMarks(c, p, cur) ==
    [c EXCEPT !.songSyncStatus[cur] = "synced", !.source[p.song] = "backend"]

\* the server accepts the POST p in flight and answers ok
PostOk(p) ==
    /\ BagIn(p, coordinator.posts)
    /\ lastOp' = "coordinator"
    /\ LET c1 == [coordinator EXCEPT !.posts = @ (-) SetToBag({p}),
                                     !.accepted[p.song] = Some(p.data)]
           c2 == PostOkMarks(c1, p, currentSongIndex)
           c3 == UpdateSubmitButtonState(c2, GetData, currentSongIndex)
       IN  coordinator' = SetLoading(c3, FALSE)
    /\ UNCHANGED <<currentSongIndex, localRatings>>
    /\ CoordinatorFrame

\* the POST p in flight throws, or is answered with a status that is not ok
PostFails(p) ==
    /\ BagIn(p, coordinator.posts)
    /\ lastOp' = "coordinator"
    /\ coordinator' = SetLoading([coordinator EXCEPT
                                     !.posts = @ (-) SetToBag({p})], FALSE)
    /\ UNCHANGED <<currentSongIndex, localRatings>>
    /\ CoordinatorFrame

\* a click on submit-study: completeStudy() if areAllSongsSavedToServer()
SubmitStudy ==
    /\ coordinator.initialized = "done"
    /\ coordinator.phase = "rating"
    /\ lastOp' = "coordinator"
    /\ coordinator' =
          IF AreAllSongsSavedToServer(coordinator, currentSongIndex, GetData, localRatings)
          THEN [coordinator EXCEPT !.phase = "completion"]
          ELSE coordinator
    /\ UNCHANGED <<currentSongIndex, localRatings>>
    /\ CoordinatorFrame

\* the gestures on this.widget while the rating phase shows it
WidgetShown ==
    /\ coordinator.phase = "rating"
    /\ coordinator.widget # Null

\* The study from the construction of the coordinator on: localStorage holds
\* nothing, or rated data for every song.
InitStudy ==
    /\ dimensionData = Defaults
    /\ currentDimension = rating_dimensions[1].dimension_title
    /\ segments = Null
    /\ pointerDown = FALSE
    /\ activeSegIndex = Null
    /\ activeHandle = Null
    /\ duration = 0
    /\ lastOp = "constructor"
    /\ thrown = FALSE
    /\ emitted = <<>>
    /\ held = Null
    /\ listeners = <<>>
    /\ invoked = <<>>
    /\ completion = Null
    /\ view = ViewAfterCreate(1)
    /\ probe = Null
    /\ currentSongIndex = 0
    /\ \E stored \in {Null, Some(PayloadRated)} :
          localRatings = [s \in Songs |-> stored]
    /\ coordinator = [CoordinatorConstructed EXCEPT
                         !.source = [s \in Songs |->
                                       IF localRatings[s] = Null THEN "none" ELSE "local"]]

NextStudy ==
    \/ \E local \in LocalConfigOutcomes, backendOk \in BOOLEAN,
          gets \in [Songs -> RatingsOutcomes] : CoordinatorInit(local, backendOk, gets)
    \/ StartRating
    \/ \E songIndex \in Songs : LoadSongAwaitingImport(songIndex)
    \/ \E songIndex \in Songs : SongButtonClick(songIndex)
    \/ \E songIndex \in Songs : CreateResolves(songIndex)
    \/ \E songIndex \in Songs : CreateRejects(songIndex)
    \/ SubmitButtonTimeout
    \/ SubmitRating
    \/ \E p \in BagToSet(coordinator.posts) : PostOk(p)
    \/ \E p \in BagToSet(coordinator.posts) : PostFails(p)
    \/ SubmitStudy
    \/ \E d \in Titles : WidgetShown /\ DimensionButtonClick(d)

SpecStudy == InitStudy /\ [][NextStudy]_vars

\* One song under edit and submission: the backend answered with rated data
\* for every song, and song 0 is loaded.  The user splits, merges, switches
\* dimensions and submits; the POSTs are answered.
InitSubmission ==
    /\ dimensionData = JSONCopy(Merge(Defaults, PayloadRated))
    /\ currentDimension = rating_dimensions[1].dimension_title
    /\ segments = Some(currentDimension)
    /\ pointerDown = FALSE
    /\ activeSegIndex = Null
    /\ activeHandle = Null
    /\ duration = 0
    /\ lastOp = "loadSong"
    /\ thrown = FALSE
    /\ emitted = <<>>
    /\ held = Null
    /\ listeners = <<"coordinator">>
    /\ invoked = <<>>
    /\ completion = Null
    /\ view = ViewAfterCreate(1)
    /\ probe = Null
    /\ currentSongIndex = 0
    /\ localRatings = [s \in Songs |-> Some(PayloadRated)]
    /\ coordinator = [CoordinatorConstructed EXCEPT
                         !.initialized = "done", !.phase = "rating",
                         !.backendAvailable = TRUE,
                         !.songSyncStatus = [s \in Songs |-> "synced"],
                         !.source = [s \in Songs |-> "backend"],
                         !.widget = Some(0), !.wavesurfer = TRUE,
                         !.accepted = [s \in Songs |-> Some(PayloadRated)],
                         !.buttonTimer = TRUE]

NextSubmission ==
    \/ \E x \in XSView : OnDblClick(x)
    \/ \E x \in XSView : OnContextMenu(x)
    \/ \E d \in Titles : DimensionButtonClick(d)
    \/ \E d \in Durations : OnReady(d)
    \/ SubmitButtonTimeout
    \/ SubmitRating
    \/ \E p \in BagToSet(coordinator.posts) : PostOk(p)
    \/ \E p \in BagToSet(coordinator.posts) : PostFails(p)

SpecSubmission == InitSubmission /\ [][NextSubmission]_vars

\* A press of the one pointer: while a drag holds the pointer captured, no
\* further press of it arrives before its release.
Press(x) ==
    /\ activeHandle = Null
    /\ activeSegIndex = Null
    /\ OnPointerDown(x)

Next ==
    \/ \E x \in XS : Press(x)
    \/ \E x \in XS, y \in YS : OnPointerMove(x, y)
    \/ OnPointerUp
    \/ \E x \in XS : OnDblClick(x)
    \/ \E x \in XS : OnContextMenu(x)
    \/ \E d \in Titles : DimensionButtonClick(d)
    \/ \E data \in Payloads \cup {GetData} : SetData(data)
    \/ \E d \in Durations : OnReady(d)

Spec == Init /\ [][Next]_vars

\* The API seen from a caller that keeps what it passes and receives: splits,
\* merges and dimension switches change the data and emit snapshots; the caller
\* reads, restores and mutates its own objects.
NextCaller ==
    \/ \E x \in XS : OnDblClick(x)
    \/ \E x \in XS : OnContextMenu(x)
    \/ \E d \in Titles : DimensionButtonClick(d)
    \/ CallerGetsData
    \/ \E data \in Payloads : CallerSetsData(data)
    \/ HandlerKeepsSnapshot
    \/ CallerMutates

SpecCaller == Init /\ [][NextCaller]_vars

\* The coordinator's completion check on rating data of any shape.
NextCompletion == \E ratingData \in RatingDataInputs : CheckCompletion(ratingData)

SpecCompletion == Init /\ [][NextCompletion]_vars

\* The overlay under several pointers (touch): a press may arrive while another
\* pointer drags, and a capture may be lost without a release.
NextPointers ==
    \/ \E data \in {PayloadEmpty, PayloadRestored} : SetData(data)
    \/ \E x \in XS : OnPointerDown(x)
    \/ \E x \in XS, y \in YS : OnPointerMove(x, y)
    \/ OnPointerUp
    \/ LostPointerCapture
    \/ \E x \in XS : OnDblClick(x)

SpecPointers == Init /\ [][NextPointers]_vars

\* The widget with callbacks registered for 'change': a caller restores the
\* defaults, registers and removes callbacks, and the user edits.
NextListeners ==
    \/ \E cb \in Callbacks : On(cb)
    \/ \E cb \in Callbacks : Off(cb)
    \/ SetData(PayloadEmpty)
    \/ \E x \in XS : Press(x)
    \/ \E x \in XS, y \in YS : OnPointerMove(x, y)
    \/ OnPointerUp
    \/ \E x \in XS : OnDblClick(x)
    \/ \E x \in XS : OnContextMenu(x)
    \/ \E d \in Titles : DimensionButtonClick(d)

SpecListeners == Init /\ [][NextListeners]_vars

\* The widget on a display of either pixel ratio: restores, value drags,
\* redraws, delayed resizes, zoom, scroll and destroy.
InitView ==
    /\ dimensionData = Defaults
    /\ currentDimension = rating_dimensions[1].dimension_title
    /\ segments = Null
    /\ pointerDown = FALSE
    /\ activeSegIndex = Null
    /\ activeHandle = Null
    /\ duration = 0
    /\ lastOp = "create"
    /\ thrown = FALSE
    /\ emitted = <<>>
    /\ held = Null
    /\ listeners = <<>>
    /\ invoked = <<>>
    /\ completion = Null
    /\ \E dpr \in DPRs : view = ViewAfterCreate(dpr)
    /\ probe = Null
    /\ currentSongIndex = 0
    /\ localRatings = [s \in Songs |-> Null]
    /\ coordinator = CoordinatorConstructed

NextView ==
    \/ \E data \in {PayloadEmpty, PayloadRestored} : SetData(data)
    \/ \E d \in Durations : OnReady(d)
    \/ \E x \in XSView : Press(x)
    \/ \E x \in XSView, y \in YSView : OnPointerMove(x, y)
    \/ OnPointerUp
    \/ FrameTick
    \/ WindowResize
    \/ ResizeTimeout
    \/ ZoomIn
    \/ ZoomOut
    \/ ResetZoom
    \/ OnScroll
    \/ Destroy

SpecView == InitView /\ [][NextView]_vars

\* The study after startRating() has loaded song 0, the backend being
\* unavailable: either nothing is stored for any song, or localStorage holds
\* the entries of an earlier session in which the backend answered with no
\* ratings for each song (data {}), which loadSong hands to setData.  The user splits, merges and
\* switches dimensions, the audio gets ready, and songs are switched.
InitCoordinator ==
    /\ \E stored \in {Null, Some(PayloadEmpty)} :
          /\ localRatings = [s \in Songs |-> stored]
          /\ segments = IF stored = Null THEN Null
                        ELSE Some(rating_dimensions[1].dimension_title)
    /\ currentSongIndex = 0
    /\ dimensionData = Defaults
    /\ currentDimension = rating_dimensions[1].dimension_title
    /\ pointerDown = FALSE
    /\ activeSegIndex = Null
    /\ activeHandle = Null
    /\ duration = 0
    /\ lastOp = "loadSong"
    /\ thrown = FALSE
    /\ emitted = <<>>
    /\ held = Null
    /\ listeners = <<"coordinator">>
    /\ invoked = <<>>
    /\ completion = Null
    /\ view = ViewAfterCreate(1)
    /\ probe = Null
    /\ coordinator = [CoordinatorConstructed EXCEPT
                         !.initialized = "done", !.phase = "rating",
                         !.widget = Some(0), !.wavesurfer = TRUE,
                         !.source = [s \in Songs |->
                                       IF localRatings[s] = Null THEN "none" ELSE "backend"],
                         !.buttonTimer = TRUE]

NextCoordinator ==
    \/ \E songIndex \in Songs : LoadSong(songIndex)
    \/ \E d \in Durations : OnReady(d)
    \/ SubmitButtonTimeout
    \/ \E x \in XSView : OnDblClick(x)
    \/ \E x \in XSView : OnContextMenu(x)
    \/ \E d \in Titles : DimensionButtonClick(d)

SpecCoordinator == InitCoordinator /\ [][NextCoordinator]_vars

\* Calls that depend on their arguments only: create with options of any
\* shape, the mapping under any view report, the default of any dimension.
NextCalls ==
    \/ \E options \in CreateOptions : Create(options)
    \/ \E v \in ViewReports, t \in ViewTimes : MapRoundTrip(v, t)
    \/ \E dim \in DimConfigs : DefaultsCall(dim)

SpecCalls == Init /\ [][NextCalls]_vars

----------------------------------------------------------------------------
(* Properties *)

EditOps == {"pointermove", "dblclick", "contextmenu"}

PointerOps == {"pointerdown", "pointermove", "pointerup", "dblclick",
               "contextmenu", "dimension_button"}

\* entry o is a list that partitions [0, d]: starts at 0, ends at d, every
\* segment has start < end, and each segment ends where the next one starts
IsPartition(o, d) ==
    /\ o # Null
    /\ Len(o[1]) >= 1
    /\ o[1][1].start = 0
    /\ o[1][Len(o[1])].end = d
    /\ \A i \in 1..Len(o[1]) : o[1][i].start < o[1][i].end
    /\ \A i \in 1..(Len(o[1]) - 1) : o[1][i].end = o[1][i + 1].start

\* the segments of list (1-based positions) whose closed range holds time
Containing(list, time) ==
    {i \in 1..Len(list) : list[i].start <= time /\ time <= list[i].end}

\* the interior boundaries of list (0-based index of the segment that starts
\* there) whose mapped x lies within HANDLE_HIT pixels of x
BoundariesNear(list, x) ==
    {i \in 1..(Len(list) - 1) :
        Abs(TimeToXScaled(list[i + 1].start) - x * DurationOrOne)
            <= HANDLE_HIT * DurationOrOne}

\* every segment of entry o is at least epsilon long
WellSpaced(o) ==
    o # Null /\ \A i \in 1..Len(o[1]) : o[1][i].end - o[1][i].start >= epsilon

\* C1: once the duration is known, a split, a merge or a drag never breaks the
\* partition: every dimension whose list partitions [0, duration] (starts at
\* 0, ends at duration, contiguous, every start < end) before the gesture
\* handler runs has a list that partitions [0, duration] after it.
C1_PartitionPreserved ==
    [][(duration > 0 /\ lastOp' \in EditOps)
          => \A t \in Titles :
                IsPartition(dimensionData[t], duration)
                    => IsPartition(dimensionData'[t], duration')]_vars

\* What the gesture handlers do preserve: a partition all of whose segments are
\* at least epsilon long stays such a partition under split, merge and drag.
SpacedPartitionPreserved ==
    [][(duration > 0 /\ lastOp' \in EditOps)
          => \A t \in Titles :
                (IsPartition(dimensionData[t], duration) /\ WellSpaced(dimensionData[t]))
                    => (IsPartition(dimensionData'[t], duration')
                            /\ WellSpaced(dimensionData'[t]))]_vars

\* C2: once the duration is known, every segment of every dimension has
\* 0 <= start < end <= duration and each dimension's last segment ends at
\* duration.
C2_WithinDuration ==
    duration > 0 =>
        \A t \in Titles :
            dimensionData[t] # Null =>
                LET l == dimensionData[t][1]
                IN  /\ \A i \in 1..Len(l) :
                          0 <= l[i].start /\ l[i].start < l[i].end /\ l[i].end <= duration
                    /\ Len(l) > 0 => l[Len(l)].end = duration

\* C3: no pointer handler (press, move, release, double-click, secondary-click,
\* dimension button) ends with an error.
C3_NoPointerHandlerThrows == lastOp \in PointerOps => ~thrown

\* C4: every configured dimension title is present in DimensionData and maps to
\* a non-empty segment list.
C4_EveryDimensionPresent ==
    \A t \in Titles :
        /\ t \in DOMAIN dimensionData
        /\ dimensionData[t] # Null
        /\ Len(dimensionData[t][1]) > 0

\* C5: the value of every segment of every dimension is an integer within the
\* value range [minValue, minValue + numValues - 1] of its own dimension.
C5_ValuesInRange ==
    \A t \in Titles :
        dimensionData[t] # Null =>
            \A i \in 1..Len(dimensionData[t][1]) :
                dimensionData[t][1][i].value \in
                    (GetValueRange(DimOf(t)).min)..(GetValueRange(DimOf(t)).max)

\* C6: a caller mutating an object it got from getData(), passed to setData()
\* or received as a change snapshot never changes what getData() returns.
C6_NoAliasing ==
    [][lastOp' = "caller_mutation"
          => JSONCopy(dimensionData') = JSONCopy(dimensionData)]_vars

C6_Witness ==
    /\ lastOp = "caller_mutation"
    /\ held # Null
    /\ held[1].obj # GetData
    /\ \E t \in Titles : dimensionData[t] # Null /\ Len(dimensionData[t][1]) >= 2

\* C7: setData(getData()) leaves DimensionData structurally equal to what it
\* was; called again right after a setData it changes nothing the gestures
\* read (same data, same list under edit).
C7_RoundTrip ==
    [][SetData(GetData)
          => /\ dimensionData' = dimensionData
             /\ lastOp = "setData" => segments' = segments]_vars

C7_Witness ==
    /\ lastOp = "setData"
    /\ duration > 0
    /\ \A p \in Payloads : dimensionData # JSONCopy(Merge(Defaults, p))
    /\ \E t \in Titles : dimensionData[t] # Null /\ Len(dimensionData[t][1]) >= 2

\* C8: a double-click at a time held by no segment (or with no list under
\* edit), or less than MIN_SEG from
\* the start or the end of the segment that holds it, leaves DimensionData as
\* it was and emits no change notification.
C8_SplitTooCloseIsNoOp ==
    [][\A x \in XS :
          (/\ OnDblClick(x)
           /\ \/ segments = Null
              \/ LET c == Containing(Segs, XToTime(x))
                 IN  \/ c = {}
                     \/ XToTime(x) - Segs[Min(c)].start < MIN_SEG
                     \/ Segs[Min(c)].end - XToTime(x) < MIN_SEG)
          => (dimensionData' = dimensionData /\ emitted' = <<>>)]_vars

C8_Witness ==
    /\ lastOp = "dblclick"
    /\ ~thrown
    /\ emitted = <<>>
    /\ segments # Null
    /\ Len(Segs) >= 2
    /\ \E x \in XS : \E i \in 1..Len(Segs) :
          /\ Segs[i].start < XToTime(x)
          /\ XToTime(x) < Segs[i].end
          /\ (XToTime(x) - Segs[i].start < MIN_SEG \/ Segs[i].end - XToTime(x) < MIN_SEG)

\* C9: a double-click at a time t at least MIN_SEG from both ends of the
\* segment s that holds it adds exactly one segment: s becomes [s.start, t],
\* followed at once by [t, old s.end], both with s.value; every other segment
\* keeps its content and its order.
C9_SplitEffect ==
    [][\A x \in XS :
          (/\ OnDblClick(x)
           /\ segments # Null
           /\ Containing(Segs, XToTime(x)) # {}
           /\ XToTime(x) - Segs[Min(Containing(Segs, XToTime(x)))].start >= MIN_SEG
           /\ Segs[Min(Containing(Segs, XToTime(x)))].end - XToTime(x) >= MIN_SEG)
          => LET t == XToTime(x)
                 k == Min(Containing(Segs, t))
                 old == Segs
                 new == dimensionData'[segments[1]][1]
             IN  /\ Len(new) = Len(old) + 1
                 /\ new[k] = [start |-> old[k].start, end |-> t, value |-> old[k].value]
                 /\ new[k + 1] = [start |-> t, end |-> old[k].end, value |-> old[k].value]
                 /\ \A i \in 1..(k - 1) : new[i] = old[i]
                 /\ \A i \in (k + 1)..Len(old) : new[i + 1] = old[i]]_vars

C9_Witness ==
    /\ lastOp = "dblclick"
    /\ emitted # <<>>
    /\ emitted[1].reason = "segment_added"
    /\ segments # Null
    /\ Len(Segs) = 3

\* C10: a secondary-click within HANDLE_HIT pixels of an interior boundary
\* removes the first such boundary i: one segment fewer, segments i-1 and i
\* replaced by one spanning [segment[i-1].start, segment[i].end] with the left
\* value, all other segments unchanged; a secondary-click near no boundary
\* changes nothing.
C10_MergeEffect ==
    [][\A x \in XS :
          OnContextMenu(x)
          => LET old == Segs
                 new == dimensionData'[segments[1]][1]
                 near == BoundariesNear(old, x)
             IN  IF segments = Null \/ near = {}
                 THEN dimensionData' = dimensionData /\ emitted' = <<>>
                 ELSE LET i == Min(near)
                      IN  /\ Len(new) = Len(old) - 1
                          /\ new[i] = [start |-> old[i].start, end |-> old[i + 1].end,
                                       value |-> old[i].value]
                          /\ \A j \in 1..(i - 1) : new[j] = old[j]
                          /\ \A j \in (i + 2)..Len(old) : new[j - 1] = old[j]]_vars

C10_Witness ==
    /\ lastOp = "contextmenu"
    /\ emitted # <<>>
    /\ emitted[1].reason = "segment_deleted"
    /\ segments # Null
    /\ Len(Segs) >= 2

\* a step of the boundary branch of _onPointerMove that stored a boundary
BoundaryDragStep ==
    /\ lastOp' = "pointermove"
    /\ emitted' # <<>>
    /\ emitted'[1].reason = "boundary_moved"

\* C11: a boundary drag stores a boundary within
\* [leftSegment.start + epsilon, rightSegment.end - epsilon]; after it both
\* adjacent segments have positive length, leftSegment.end = rightSegment.start,
\* and nothing else of the list has changed.
C11_DragClamped ==
    [][BoundaryDragStep
          => LET l == activeHandle[1].startSeg + 1
                 r == activeHandle[1].endSeg + 1
                 old == Segs
                 new == dimensionData'[segments[1]][1]
             IN  /\ old[l].start + epsilon <= new[l].end
                 /\ new[l].end <= old[r].end - epsilon
                 /\ new[l].end = new[r].start
                 /\ new[l].start < new[l].end
                 /\ new[r].start < new[r].end
                 /\ Len(new) = Len(old)
                 /\ new[l] = [old[l] EXCEPT !.end = new[l].end]
                 /\ new[r] = [old[r] EXCEPT !.start = new[r].start]
                 /\ \A i \in 1..Len(old) : i \notin {l, r} => new[i] = old[i]]_vars

\* What the drag does guarantee: the same, for two segments that together span
\* at least 2 * epsilon.
DragClampedWhenSpaced ==
    [][(/\ BoundaryDragStep
        /\ Segs[activeHandle[1].endSeg + 1].end
             - Segs[activeHandle[1].startSeg + 1].start >= 2 * epsilon)
          => LET l == activeHandle[1].startSeg + 1
                 r == activeHandle[1].endSeg + 1
                 new == dimensionData'[segments[1]][1]
             IN  /\ Segs[l].start + epsilon <= new[l].end
                 /\ new[l].end <= Segs[r].end - epsilon
                 /\ new[l].end = new[r].start]_vars

\* C12: an edit (split, merge, boundary move, value change) leaves the segment
\* list of every dimension other than the active one as it was.
C12_EditFrame ==
    [][lastOp' \in EditOps
          => \A t \in Titles \ {currentDimension} :
                dimensionData'[t] = dimensionData[t]]_vars

C12_Witness ==
    /\ lastOp \in EditOps
    /\ emitted # <<>>
    /\ currentDimension = "flow"
    /\ segments = Some("flow")
    /\ dimensionData["arousal"] # Null
    /\ Len(dimensionData["arousal"][1]) >= 2
    /\ dimensionData["flow"] # Defaults["flow"]

\* C13: a click on a dimension button leaves the content of DimensionData as it
\* was for every dimension; only the active dimension changes.
C13_SwitchKeepsData ==
    [][(\E d \in Titles : DimensionButtonClick(d))
          => dimensionData' = dimensionData]_vars

\* no drag target is held
Idle == activeHandle = Null /\ activeSegIndex = Null

\* C14: a pointer release leaves the engine idle (pointer up, no boundary and
\* no segment held) whatever it was doing, and while the pointer is up the
\* engine stays idle and a pointer move changes no segment and emits nothing.
C14_ReleaseReturnsToIdle ==
    [][/\ OnPointerUp => (~pointerDown' /\ Idle')
       /\ ~pointerDown => Idle
       /\ (~pointerDown /\ lastOp' = "pointermove")
             => (dimensionData' = dimensionData /\ emitted' = <<>> /\ ~pointerDown' /\ Idle')]_vars

C14_Witness ==
    /\ lastOp = "pointermove"
    /\ ~pointerDown
    /\ Idle
    /\ emitted = <<>>
    /\ segments # Null
    /\ Len(Segs) >= 2
    /\ \E i \in 1..Len(Segs) : Segs[i].value # DefaultValue(DimOf(currentDimension))

\* a gesture or dimension-button step that changed DimensionData or the active
\* dimension
MutatingStep ==
    /\ lastOp' \in EditOps \cup {"dimension_button"}
    /\ (dimensionData' # dimensionData \/ currentDimension' # currentDimension)

\* the reason tag of the transition a step took
ReasonOfStep ==
    CASE lastOp' = "dimension_button" -> "dimension_changed"
      [] lastOp' = "dblclick" -> "segment_added"
      [] lastOp' = "contextmenu" -> "segment_deleted"
      [] lastOp' = "pointermove" ->
            IF activeHandle # Null THEN "boundary_moved" ELSE "rating_changed"

\* C17: every gesture or dimension switch that changes DimensionData or the
\* active dimension emits exactly one change notification, with the reason of
\* the transition, the active dimension, and the data getData() returns after
\* the change.
C17_MutationNotifies ==
    [][MutatingStep
          => /\ Len(emitted') = 1
             /\ emitted'[1].reason = ReasonOfStep
             /\ emitted'[1].dimension = currentDimension'
             /\ emitted'[1].data = JSONCopy(dimensionData')]_vars

\* C18: a handler that emits a change notification calls every registered
\* callback once per registration, in registration order, within the handler,
\* whether or not an earlier callback threw, and ends without an error; a
\* handler that emits nothing calls nothing.
C18_AllListenersCalled ==
    [][/\ emitted' # <<>> => (invoked' = listeners /\ ~thrown')
       /\ emitted' = <<>> => invoked' = <<>>]_vars

C18_Witness ==
    /\ emitted # <<>>
    /\ invoked = <<"failing", "recorder">>
    /\ CallbackThrows(invoked[1])
    /\ ~thrown

\* C15: at most one drag is active (never a boundary and a segment held at
\* once), and a press that arrives while a target is held starts no other
\* drag: it leaves the held target as it is.
C15_NoOverlappingDrags ==
    [][/\ ~(activeHandle # Null /\ activeSegIndex # Null)
       /\ \A x \in XS :
             (OnPointerDown(x) /\ ~Idle)
                => UNCHANGED <<activeHandle, activeSegIndex>>]_vars

\* C16: once the capture is lost the engine is idle, and a pointer move that
\* follows changes no boundary and no value and emits nothing.
C16_LostCaptureEndsDrag ==
    [][/\ lastOp = "lostpointercapture" => (~pointerDown /\ Idle)
       /\ (lastOp = "lostpointercapture" /\ lastOp' = "pointermove")
             => (dimensionData' = dimensionData /\ emitted' = <<>>)]_vars

\* the elements of a sequence
Range(seq) == {seq[i] : i \in DOMAIN seq}

\* C19: checkRatingDataComplete lists a configured dimension as missing exactly
\* when its list is absent, null or empty, or is one segment whose value is the
\* dimension's default or is undefined; the list holds each such title once,
\* in configuration order, and isComplete is true exactly when it is empty.
C19_CompletionEvaluation ==
    completion # Null =>
        LET rd == completion[1].ratingData
            res == completion[1].result
        IN  /\ \A t \in Titles :
                  (t \in Range(res.missingDimensions))
                    <=> \/ t \notin DOMAIN rd
                        \/ rd[t] = Null
                        \/ Len(rd[t][1]) = 0
                        \/ /\ Len(rd[t][1]) = 1
                           /\ \/ "value" \notin DOMAIN rd[t][1][1]
                              \/ rd[t][1][1].value = DefaultValue(DimOf(t))
            /\ Range(res.missingDimensions) \subseteq Titles
            /\ \A i, j \in DOMAIN res.missingDimensions :
                  (i < j) =>
                     \E a, b \in DOMAIN rating_dimensions :
                        /\ a < b
                        /\ rating_dimensions[a].dimension_title = res.missingDimensions[i]
                        /\ rating_dimensions[b].dimension_title = res.missingDimensions[j]
            /\ res.isComplete <=> (res.missingDimensions = <<>>)

C19_Witness ==
    /\ completion # Null
    /\ completion[1].result.missingDimensions = <<"flow">>
    /\ ~completion[1].result.isComplete
    /\ DOMAIN completion[1].ratingData = Titles
    /\ completion[1].ratingData["flow"] = Some(<<>>)
    /\ Len(completion[1].ratingData["arousal"][1]) = 2

\* whether the completion check, run on what getData() returns for the data dd,
\* lists dimension t as missing
MissingIn(dd, t) == t \in Range(CheckRatingDataComplete(JSONCopy(dd)).missingDimensions)

\* C20: a dimension whose list is its single default segment is reported
\* missing; a split makes the active dimension rated, whatever the values; a
\* rated dimension stays rated when a boundary is moved; and deleting the one
\* boundary of two segments whose left value is the default gives back a
\* single segment over the same range with the default value, reported
\* missing.
C20_CompletenessFollowsEdits ==
    [][/\ \A t \in Titles :
             (/\ dimensionData[t] # Null
              /\ Len(dimensionData[t][1]) = 1
              /\ dimensionData[t][1][1].start = 0
              /\ dimensionData[t][1][1].value = DefaultValue(DimOf(t)))
                => MissingIn(dimensionData, t)
       /\ (lastOp' = "dblclick" /\ emitted' # <<>>)
             => ~MissingIn(dimensionData', currentDimension)
       /\ (BoundaryDragStep /\ ~MissingIn(dimensionData, currentDimension))
             => ~MissingIn(dimensionData', currentDimension)
       /\ (/\ lastOp' = "contextmenu"
           /\ emitted' # <<>>
           /\ Len(Segs) = 2
           /\ Segs[1].value = DefaultValue(DimOf(currentDimension)))
             => /\ dimensionData'[currentDimension] =
                      Some(<< [start |-> Segs[1].start, end |-> Segs[2].end,
                               value |-> DefaultValue(DimOf(currentDimension))] >>)
                /\ MissingIn(dimensionData', currentDimension)]_vars

C20_Witness ==
    /\ lastOp = "contextmenu"
    /\ emitted # <<>>
    /\ emitted[1].reason = "segment_deleted"
    /\ duration > 0
    /\ dimensionData[currentDimension] =
          Some(<< [start |-> 0, end |-> duration,
                   value |-> DefaultValue(DimOf(currentDimension))] >>)
    /\ MissingIn(dimensionData, currentDimension)
    /\ ~CheckRatingDataComplete(GetData).isComplete

\* C23: create(options) is rejected, and resolves to no widget, whenever the
\* container is absent or matches no element, and whenever audioUrl is absent
\* or empty; it resolves exactly when both are there.
C23_CreateRejects ==
    (probe # Null /\ probe[1].op = "create") =>
        LET o == probe[1].input
            noContainer == o.container \in {<<>>, <<"#missing">>}
            noAudio == o.audioUrl \in {<<>>, <<"">>}
        IN  /\ (noContainer \/ noAudio) =>
                  (probe[1].result.settled = "rejected" /\ probe[1].result.error # "")
            /\ (probe[1].result.settled = "resolved") <=> (~noContainer /\ ~noAudio)

C23_Witness ==
    /\ probe # Null
    /\ probe[1].op = "create"
    /\ probe[1].input.container = <<"element">>
    /\ probe[1].input.audioUrl = <<>>
    /\ probe[1].input.rating_dimensions # <<>>
    /\ probe[1].result.settled = "rejected"

\* the mapped position lies strictly inside the +-10000 px clamp
InsideClamp(v, xs) == -XClamp * v.duration < xs /\ xs < XClamp * v.duration

\* C29: for every view report with duration > 0 and every time t in
\* [0, duration] whose mapped x lies inside the clamp,
\* xToTime(timeToX(t)) is the time t.
C29_MappingRoundTrip ==
    (probe # Null /\ probe[1].op = "map") =>
        LET v == probe[1].input.view
            t == probe[1].input.time
            r == probe[1].result
        IN  (t <= v.duration /\ InsideClamp(v, r.x))
                => (r.back # Null /\ r.back[1].num = t * r.back[1].den)

\* What the two functions do guarantee: the round trip is exact whenever the
\* wrapper reports a content width other than 0.
MappingRoundTripWhenWidthKnown ==
    (probe # Null /\ probe[1].op = "map") =>
        LET v == probe[1].input.view
            t == probe[1].input.time
            r == probe[1].result
        IN  (t <= v.duration /\ InsideClamp(v, r.x) /\ v.scrollWidth # 0)
                => (r.back # Null /\ r.back[1].num = t * r.back[1].den)

\* A boundary made by a double-click at x is the first boundary hit at x
\* right after it.
SplitBoundaryIsHitAtSameX ==
    [][\A x \in XS :
          (OnDblClick(x) /\ emitted' # <<>>)
             => LET list == dimensionData'[segments[1]][1]
                    near == BoundariesNear(list, x)
                IN  \E i \in near :
                       TimeToXScaled(list[i + 1].start) = x * DurationOrOne]_vars

\* C30: for a dimension configured in any way, the single default segment of
\* a fresh or default-filled widget is reported missing by the completion
\* check, widget and check use the same default, and that default is
\* default_value when a number is given and
\* minimal_value + floor(num_values / 2) otherwise.
C30_DefaultsAgree ==
    (probe # Null /\ probe[1].op = "defaults") =>
        LET dim == probe[1].input
            r == probe[1].result
            expected == IF dim.default_value \in {<<>>, NullField}
                        THEN MinimalValueOrZero(dim) + (dim.num_values \div 2)
                        ELSE dim.default_value[1]
        IN  /\ r.missing
            /\ r.widget = r.coordinator
            /\ r.widget = Some(expected)
            /\ r.data = << [start |-> 0, end |-> SENTINEL, value |-> expected] >>

\* What does hold for every configuration: the default segment is reported
\* missing, and widget and completion check compute the same default.
DefaultSegmentIsMissing ==
    (probe # Null /\ probe[1].op = "defaults") =>
        (probe[1].result.missing /\ probe[1].result.widget = probe[1].result.coordinator)

\* C25: the list the gestures edit is the very list stored in DimensionData
\* under the active dimension: this.segments is not null and refers to that
\* array.
C25_EditListIsStored ==
    /\ segments = Some(currentDimension)
    /\ dimensionData[currentDimension] # Null

\* C26: while a boundary is held its two indices are adjacent and both name
\* segments of the list under edit, and while a segment is held its index
\* names a segment of that list.
C26_DragKeepsTarget ==
    /\ (pointerDown /\ activeHandle # Null)
          => /\ segments # Null
             /\ activeHandle[1].startSeg + 1 = activeHandle[1].endSeg
             /\ activeHandle[1].startSeg >= 0
             /\ activeHandle[1].endSeg < Len(Segs)
    /\ (pointerDown /\ activeSegIndex # Null)
          => /\ segments # Null
             /\ activeSegIndex[1] < Len(Segs)

\* What the handlers do keep: right after a press the target it took names
\* segments of the list under edit.
PressTakesExistingTarget ==
    lastOp = "pointerdown" =>
        /\ activeHandle # Null
              => (segments # Null /\ activeHandle[1].startSeg + 1 = activeHandle[1].endSeg
                    /\ activeHandle[1].startSeg >= 0 /\ activeHandle[1].endSeg < Len(Segs))
        /\ activeSegIndex # Null => (segments # Null /\ activeSegIndex[1] < Len(Segs))

\* what a press at x has to do on the list l (a list of the active dimension)
PressEffect(l, x) ==
    LET near == BoundariesNear(l, x)
        inside == Containing(l, XToTime(x))
    IN  /\ near # {}
              => /\ activeHandle' # Null
                 /\ activeHandle'[1].index \in near
                 /\ activeHandle'[1].startSeg = activeHandle'[1].index - 1
                 /\ activeHandle'[1].endSeg = activeHandle'[1].index
                 /\ activeSegIndex' = Null
        /\ (near = {} /\ inside # {})
              => /\ activeSegIndex' = Some(Min(inside) - 1)
                 /\ activeHandle' = Null
        /\ dimensionData' = dimensionData

\* C28: a press within HANDLE_HIT pixels (inclusive) of an interior boundary
\* of the active dimension's list takes a boundary within that distance and no
\* segment; a press farther from every interior boundary and inside a
\* segment's time range takes that segment and no boundary; a press changes
\* no segment.
C28_BoundaryPrecedence ==
    [][\A x \in XS :
          (Press(x) /\ dimensionData[currentDimension] # Null)
             => PressEffect(dimensionData[currentDimension][1], x)]_vars

\* What the press does guarantee: the same, once the list under edit is set.
BoundaryPrecedenceOnEditList ==
    [][\A x \in XS :
          (Press(x) /\ segments # Null) => PressEffect(Segs, x)]_vars

\* C24: a song's stored entry changes only when that song is left, and then
\* becomes the data the widget holds at that moment; loading a song whose
\* stored entry was written that way (it has every dimension's key) makes the
\* widget's data equal to that entry.  So a song left and loaded again shows
\* the data it was left with, and switching songs changes the stored entry
\* of no other song.
C24_SongsKeptApart ==
    [][/\ \A s \in Songs :
             localRatings'[s] # localRatings[s]
                => /\ lastOp' = "loadSong"
                   /\ s = currentSongIndex
                   /\ localRatings'[s] = Some(GetData)
       /\ \A j \in Songs :
             LoadSong(j)
                => /\ localRatings'[currentSongIndex] = Some(GetData)
                   /\ (localRatings'[j] # Null /\ DOMAIN localRatings'[j][1] = Titles)
                         => JSONCopy(dimensionData') = localRatings'[j][1]]_vars

C24_Witness ==
    /\ lastOp = "loadSong"
    /\ currentSongIndex = 0
    /\ localRatings[0] # Null
    /\ localRatings[1] # Null
    /\ DOMAIN localRatings[0][1] = Titles
    /\ DOMAIN localRatings[1][1] = Titles
    /\ GetData = localRatings[0][1]
    /\ localRatings[0][1]["arousal"] # Null
    /\ Len(localRatings[0][1]["arousal"][1]) = 2
    /\ localRatings[1][1]["flow"] # Null
    /\ Len(localRatings[1][1]["flow"][1]) = 2

\* the steps of the redraw, resize, zoom, scroll and destroy handlers
ViewOps == {"frame", "resize", "resize_timeout", "zoom_in", "zoom_out",
            "zoom_reset", "scroll", "destroy", "ready"}

\* C21: once destroy() has run, no step of the widget draws the overlay again:
\* no frame callback, no delayed resize, no 'ready' handler.
C21_NoRedrawAfterDestroy ==
    [][view.destroyed => ~(lastOp' \in ViewOps /\ view'.drew)]_vars

\* C22: a redraw tick, a scroll notification, a zoom-in, zoom-out or zoom
\* reset, a window resize and a delayed overlay resize leave the data of every
\* dimension, the list under edit and the gesture state as they were.
C22_ViewStepsKeepData ==
    [][lastOp' \in (ViewOps \ {"ready", "destroy"})
          => UNCHANGED <<dimensionData, currentDimension, segments, pointerDown,
                         activeSegIndex, activeHandle>>]_vars

C22_Witness ==
    /\ lastOp = "frame"
    /\ view.drew
    /\ duration > 0
    /\ pointerDown
    /\ activeSegIndex # Null
    /\ segments # Null
    /\ \E i \in 1..Len(Segs) : Segs[i].end > duration

\* clamp(round((1 - y / H) * (n - 1)), 0, n - 1)
QuantizedStep(n, y, H) ==
    MaxOf(0, MinOf(n - 1, (2 * (H - y) * (n - 1) + H) \div (2 * H)))

\* a step of the value branch of _onPointerMove that stored a value
ValueDragStep ==
    /\ lastOp' = "pointermove"
    /\ emitted' # <<>>
    /\ emitted'[1].reason = "rating_changed"

\* C27: once the overlay has been sized, a value drag at y stores
\* minValue + clamp(round((1 - y / H) * (numValues - 1)), 0, numValues - 1)
\* with H the displayed height of the overlay, whatever the device pixel
\* ratio: y = 0 stores the maximum and y = H the minimum.
C27_ValueQuantization ==
    [][\A x \in XSView, y \in YSView :
          (/\ OnPointerMove(x, y)
           /\ ValueDragStep
           /\ view.overlayHeight = OverlayBitmapHeight(view.dpr))
          => LET dim == DimOf(currentDimension)
                 new == dimensionData'[segments[1]][1][activeSegIndex[1] + 1].value
             IN  /\ new = GetValueRange(dim).min
                            + QuantizedStep(dim.num_values, y, OverlayHeight)
                 /\ y = 0 => new = GetValueRange(dim).max
                 /\ y = OverlayHeight => new = GetValueRange(dim).min]_vars

\* What the value drag does compute: the same with H the height of the
\* overlay's bitmap (displayed height times device pixel ratio).
ValueQuantizedByBitmapHeight ==
    [][\A x \in XSView, y \in YSView :
          (OnPointerMove(x, y) /\ ValueDragStep)
          => dimensionData'[segments[1]][1][activeSegIndex[1] + 1].value
                = GetValueRange(DimOf(currentDimension)).min
                    + QuantizedStep(DimOf(currentDimension).num_values, y,
                                    view.overlayHeight)]_vars

\* the coordinator flags and counters stay within their ranges
StudyFieldsInRange ==
    /\ coordinator.orphans \in 0..MaxCreates
    /\ BagCardinality(coordinator.creates) <= MaxCreates
    /\ BagCardinality(coordinator.posts) <= MaxPosts

----------------------------------------------------------------------------
(* The study: completion, synchronisation and submission *)

\* a song's current rating data: the data of this.widget for the current
\* song, its stored entry otherwise (null when there is none)
SongData(s) ==
    IF s = currentSongIndex /\ coordinator.widget # Null THEN Some(GetData)
    ELSE localRatings[s]

SongComplete(s) ==
    /\ SongData(s) # Null
    /\ CheckRatingDataComplete(SongData(s)[1]).isComplete

\* C31: completeStudy (the step into the completion phase) is taken only in
\* a state where every song of the study has complete ratings and the sync
\* status 'synced'.
C31_CompletionNeedsAllSaved ==
    [][(coordinator.phase # "completion" /\ coordinator'.phase = "completion")
          => \A s \in Songs : /\ SongComplete(s)
                              /\ coordinator.songSyncStatus[s] = "synced"]_vars

\* the completion phase is reached
C31_Witness == coordinator.phase = "completion"

\* C32: a song's status becomes 'synced' only in a step that handles an ok
\* answer to a ratings request of that very song: the initial GET of its
\* ratings, or a POST that was sent for it.
C32_SyncedForOwnRequest ==
    [][\A s \in Songs :
          (coordinator.songSyncStatus[s] # "synced"
              /\ coordinator'.songSyncStatus[s] = "synced")
             => \/ /\ coordinator.initialized = "no"
                   /\ coordinator'.accepted[s] # Null
                \/ \E p \in BagToSet(coordinator.posts) : p.song = s /\ PostOk(p)]_vars

\* holds: without a switch of songs while a POST is in flight, the song that
\* is marked is the song of the POST
SyncedForOwnRequestWithoutSwitch ==
    [][\A p \in BagToSet(coordinator.posts) :
          (PostOk(p) /\ p.song = currentSongIndex)
             => \A s \in Songs :
                   (coordinator.songSyncStatus[s] # "synced"
                       /\ coordinator'.songSyncStatus[s] = "synced") => s = p.song]_vars

\* C33: whenever a song's status is 'synced', the rating data the server
\* accepted last for the song is the song's current rating data.
C33_SyncedMeansAccepted ==
    \A s \in Songs :
        coordinator.songSyncStatus[s] = "synced" => coordinator.accepted[s] = SongData(s)

\* holds: the answer to a POST whose data is still the widget's data leaves
\* the current song 'synced' with the data the server accepted
SyncedMeansAcceptedWithoutEdit ==
    [][\A p \in BagToSet(coordinator.posts) :
          (PostOk(p) /\ p.data = GetData)
             => /\ coordinator'.songSyncStatus[currentSongIndex] = "synced"
                /\ coordinator'.accepted[currentSongIndex] = SongData(currentSongIndex)']_vars

\* every loadSong call has come to its end, and a widget was created
LoadsSettled ==
    /\ coordinator.creates = EmptyBag
    /\ coordinator.wavesurfer

\* C34: once all loads have settled, one widget is left undestroyed and it was
\* created for the current song; and an entry of the local ratings is written
\* only with the data of a widget that was created for the entry's song.
C34_OneWidgetOfCurrentSong ==
    [][/\ LoadsSettled' => /\ coordinator'.orphans = 0
                           /\ coordinator'.widget = Some(currentSongIndex')
       /\ \A s \in Songs :
             (coordinator.initialized = "done" /\ localRatings'[s] # localRatings[s])
                => /\ coordinator.widget = Some(s)
                   /\ localRatings'[s] = Some(GetData)]_vars

\* holds: a load that starts when the earlier ones have settled replaces the
\* widget by one of the song it makes current, and leaves none behind
SettledLoadKeepsOneWidget ==
    [][\A s \in Songs :
          (LoadsSettled /\ SongButtonClick(s))
             => /\ coordinator'.widget = Some(s)
                /\ currentSongIndex' = s
                /\ coordinator'.orphans = coordinator.orphans]_vars

\* C35: a POST is sent only in a state with a widget, complete data of the
\* current song, and no load and no submission in progress; a submitRating
\* that sends none changes no sync status; and there is never more than one
\* POST in flight.
C35_OneSubmissionAtATime ==
    [][/\ BagCardinality(coordinator'.posts) <= 1
       /\ BagCardinality(coordinator'.posts) > BagCardinality(coordinator.posts)
             => /\ coordinator.widget # Null
                /\ CheckRatingDataComplete(GetData).isComplete
                /\ coordinator.creates = EmptyBag
                /\ coordinator.posts = EmptyBag
       /\ (SubmitRating /\ coordinator'.posts = coordinator.posts)
             => coordinator'.songSyncStatus = coordinator.songSyncStatus]_vars

\* holds: a POST is sent only while isLoading is false, with a widget and
\* complete data
PostNeedsGuards ==
    [][BagCardinality(coordinator'.posts) > BagCardinality(coordinator.posts)
          => SubmitGuards(coordinator, GetData)]_vars

\* C36: when a POST fails, the local ratings hold an entry for the song it was
\* sent for, with source 'local', no sync status has changed and isLoading is
\* false; a submitRating without a backend stores the widget's data under
\* the current song with source 'local', changes no sync status and ends with
\* isLoading false.
C36_FailedSubmissionKeptLocal ==
    [][/\ \A p \in BagToSet(coordinator.posts) :
             PostFails(p)
                => /\ localRatings'[p.song] # Null
                   /\ coordinator'.source[p.song] = "local"
                   /\ coordinator'.songSyncStatus = coordinator.songSyncStatus
                   /\ ~coordinator'.isLoading
       /\ (SubmitRating /\ SubmitGuards(coordinator, GetData)
                        /\ ~coordinator.backendAvailable)
             => /\ localRatings'[currentSongIndex] = Some(GetData)
                /\ coordinator'.source[currentSongIndex] = "local"
                /\ coordinator'.songSyncStatus = coordinator.songSyncStatus
                /\ ~coordinator'.isLoading]_vars

\* holds: submitRating stores the data it is about to send with source
\* 'local', and the failure of a POST changes neither the local ratings, nor
\* a source, nor a sync status, and clears isLoading
FailedSubmissionChangesNothing ==
    [][/\ (SubmitRating /\ SubmitGuards(coordinator, GetData))
             => /\ localRatings'[currentSongIndex] = Some(GetData)
                /\ coordinator'.source[currentSongIndex] = "local"
       /\ \A p \in BagToSet(coordinator.posts) :
             PostFails(p)
                => /\ localRatings' = localRatings
                   /\ coordinator'.source = coordinator.source
                   /\ coordinator'.songSyncStatus = coordinator.songSyncStatus
                   /\ ~coordinator'.isLoading]_vars

\* what the claim asks of the submit button
SubmitWanted ==
    /\ coordinator.backendAvailable
    /\ coordinator.widget # Null
    /\ CheckRatingDataComplete(GetData).isComplete
    /\ coordinator.songSyncStatus[currentSongIndex] # "synced"

\* no load and no submission is in progress, and the delayed button update of
\* the last load has run
CoordinatorIdle ==
    /\ coordinator.initialized = "done"
    /\ coordinator.phase = "rating"
    /\ ~coordinator.isLoading
    /\ coordinator.creates = EmptyBag
    /\ coordinator.posts = EmptyBag
    /\ ~coordinator.buttonTimer

\* C37: whenever no load and no submission is in progress, the submit button
\* is enabled exactly if the backend is available, a widget is loaded, the
\* current song's data is complete and the current song is not 'synced'.
C37_SubmitButtonState ==
    CoordinatorIdle => (~coordinator.submitDisabled <=> SubmitWanted)

\* holds: updateSubmitButtonState leaves the button as the claim asks
ButtonRightAfterUpdate ==
    [][SubmitButtonTimeout => (~coordinator'.submitDisabled <=> SubmitWanted')]_vars

\* C38: a step takes a song from 'synced' to 'modified' only if it changes the
\* song's rating data, and to data other than the data the server accepted
\* last.
C38_DemotedByRealChange ==
    [][\A s \in Songs :
          (coordinator.songSyncStatus[s] = "synced" /\ coordinator'.songSyncStatus[s] = "modified")
             => /\ SongData(s)' # SongData(s)
                /\ SongData(s)' # coordinator.accepted[s]]_vars

\* holds: a split or a merge that changes the data of a 'synced' song demotes
\* it
RealChangeDemotes ==
    [][(/\ coordinator.songSyncStatus[currentSongIndex] = "synced"
        /\ GetData' # GetData
        /\ \E x \in XSView : OnDblClick(x) \/ OnContextMenu(x))
          => coordinator'.songSyncStatus[currentSongIndex] = "modified"]_vars

\* C39: when the local configuration file cannot be fetched (the request
\* fails or is answered with a status that is not ok), init() still comes to
\* its end, where the listeners of begin-study and submit are registered.
C39_ConfigFallback ==
    [][\A local \in {"not_ok", "failed"}, backendOk \in BOOLEAN,
          gets \in [Songs -> RatingsOutcomes] :
          CoordinatorInit(local, backendOk, gets)
             => coordinator'.initialized = "done"]_vars

\* holds: with the configuration file fetched, init() comes to its end
InitCompletesWithConfigFile ==
    [][\A backendOk \in BOOLEAN, gets \in [Songs -> RatingsOutcomes] :
          CoordinatorInit("ok", backendOk, gets)
             => coordinator'.initialized = "done"]_vars

====
